---- MODULE Spec2Model ----
(***************************************************************************)
(* A model of the protocol engine of legion-protocol: the message codec    *)
(* (src/src/message.rs), the capability negotiation engine with its STS    *)
(* policy cache (src/src/capabilities.rs) and the SASL state machine       *)
(* (src/src/sasl.rs).                                                      *)
(*                                                                         *)
(* Rust strings are TLA+ strings (ASCII, so bytes and characters agree);   *)
(* Option<T> is a sequence of length 0 (None) or 1 (Some); Result<T> is a  *)
(* record [kind |-> "Ok" | "Err" | "Panic", err |-> variant, val |-> T].    *)
(***************************************************************************)
EXTENDS Integers, Sequences, FiniteSets, TLC

VARIABLES
    \* tag escaping (message.rs, escape_tag_value / unescape_tag_value)
    tag_value, tag_escaped, tag_unescaped, tag_pc,
    \* codec round trip (message.rs, Display and FromStr for IrcMessage)
    message, line, parsed, line2, codec_pc,
    \* CapabilityHandler (capabilities.rs)
    version, available_caps, requested_caps, enabled_caps, negotiation_complete,
    sts_policies,
    \* the wall clock read by SystemTime::now(), in seconds, and for each
    \* hostname the clock value at its last stored policy (history variable)
    now, stored_at,
    \* SaslAuth (sasl.rs)
    mechanism, username, password, client_nonce, server_nonce, salt, iterations,
    state,
    \* the last call made on a component and what it returned
    call, result

tagVars   == <<tag_value, tag_escaped, tag_unescaped, tag_pc>>
codecVars == <<message, line, parsed, line2, codec_pc>>
capVars   == <<version, available_caps, requested_caps, enabled_caps, negotiation_complete>>
stsVars   == <<sts_policies, now, stored_at>>
saslVars  == <<mechanism, username, password, client_nonce, server_nonce, salt,
               iterations, state>>
callVars  == <<call, result>>
vars      == <<tagVars, codecVars, capVars, stsVars, saslVars, callVars>>

-----------------------------------------------------------------------------
(* Option and Result *)

None == <<>>
Some(x) == <<x>>
IsSome(o) == Len(o) = 1
Unwrap(o) == o[1]

Ok(v) == [kind |-> "Ok", err |-> "", val |-> v]
Err(variant) == [kind |-> "Err", err |-> variant, val |-> <<>>]
Panic == [kind |-> "Panic", err |-> "", val |-> <<>>]
IsOk(r) == r.kind = "Ok"

Min(a, b) == IF a <= b THEN a ELSE b

-----------------------------------------------------------------------------
(* str primitives of the Rust standard library, as the code uses them *)

Char(s, i) == SubSeq(s, i, i)

\* s[i..] with a 0-based byte offset i
From(s, i) == SubSeq(s, i + 1, Len(s))

\* s[..i] with a 0-based byte offset i
Upto(s, i) == SubSeq(s, 1, i)

StartsWith(s, p) == Len(s) >= Len(p) /\ SubSeq(s, 1, Len(p)) = p

EndsWith(s, p) == Len(s) >= Len(p) /\ SubSeq(s, Len(s) - Len(p) + 1, Len(s)) = p

\* str::find: the 0-based offset of the first occurrence of p, as
\* Some(offset), or None
Find(s, p) ==
    LET last == Len(s) - Len(p)
        At(i) == SubSeq(s, i + 1, i + Len(p)) = p
    IN IF \E i \in 0..last : At(i)
       THEN Some(CHOOSE i \in 0..last : At(i) /\ \A j \in 0..(i - 1) : ~At(j))
       ELSE None

Contains(s, p) == IsSome(Find(s, p))

\* str::replace: every non-overlapping match of from, left to right
RECURSIVE Replace(_, _, _)
Replace(s, from, to) ==
    LET pos == Find(s, from) IN
    IF ~IsSome(pos) THEN s
    ELSE Upto(s, Unwrap(pos)) \o to
         \o Replace(From(s, Unwrap(pos) + Len(from)), from, to)

\* str::split(sep): always at least one piece, empty pieces kept
RECURSIVE Split(_, _)
Split(s, sep) ==
    LET pos == Find(s, sep) IN
    IF ~IsSome(pos) THEN <<s>>
    ELSE <<Upto(s, Unwrap(pos))>> \o Split(From(s, Unwrap(pos) + Len(sep)), sep)

\* str::splitn(n, sep): at most n pieces, the last one holding the rest
RECURSIVE SplitN(_, _, _)
SplitN(n, s, sep) ==
    LET pos == Find(s, sep) IN
    IF n = 0 THEN <<>>
    ELSE IF n = 1 \/ ~IsSome(pos) THEN <<s>>
    ELSE <<Upto(s, Unwrap(pos))>>
         \o SplitN(n - 1, From(s, Unwrap(pos) + Len(sep)), sep)

Whitespace == {" ", "\t", "\n", "\r", "\f"}

RECURSIVE TrimStart(_)
TrimStart(s) ==
    IF Len(s) > 0 /\ Char(s, 1) \in Whitespace THEN TrimStart(Tail(s)) ELSE s

RECURSIVE TrimEnd(_)
TrimEnd(s) ==
    IF Len(s) > 0 /\ Char(s, Len(s)) \in Whitespace
    THEN TrimEnd(SubSeq(s, 1, Len(s) - 1)) ELSE s

\* str::trim
Trim(s) == TrimEnd(TrimStart(s))

\* str::split_whitespace: the maximal runs of non-whitespace characters
RECURSIVE SplitWhitespaceFrom(_, _)
SplitWhitespaceFrom(s, cur) ==
    IF Len(s) = 0 THEN (IF cur = "" THEN <<>> ELSE <<cur>>)
    ELSE IF Char(s, 1) \in Whitespace
         THEN (IF cur = "" THEN <<>> ELSE <<cur>>) \o SplitWhitespaceFrom(Tail(s), "")
         ELSE SplitWhitespaceFrom(Tail(s), cur \o Char(s, 1))

SplitWhitespace(s) == SplitWhitespaceFrom(s, "")

\* [T]::join(sep) on strings
RECURSIVE Join(_, _)
Join(parts, sep) ==
    IF Len(parts) = 0 THEN ""
    ELSE IF Len(parts) = 1 THEN parts[1]
    ELSE parts[1] \o sep \o Join(Tail(parts), sep)

\* str::trim_end_matches(pat): pat removed from the end as often as it matches
RECURSIVE TrimEndMatches(_, _)
TrimEndMatches(s, pat) ==
    IF Len(pat) > 0 /\ EndsWith(s, pat)
    THEN TrimEndMatches(SubSeq(s, 1, Len(s) - Len(pat)), pat) ELSE s

Lower == "abcdefghijklmnopqrstuvwxyz"
Upper == "ABCDEFGHIJKLMNOPQRSTUVWXYZ"
Digits == "0123456789"

IsAsciiLower(c) == Contains(Lower, c)
IsAsciiUpper(c) == Contains(Upper, c)
IsAsciiDigit(c) == Contains(Digits, c)
IsAsciiAlphabetic(c) == IsAsciiLower(c) \/ IsAsciiUpper(c)
IsAsciiAlphanumeric(c) == IsAsciiAlphabetic(c) \/ IsAsciiDigit(c)

\* chars().all(pred)
AllChars(s, P(_)) == \A i \in 1..Len(s) : P(Char(s, i))

\* str::to_uppercase on ASCII text
RECURSIVE ToUppercase(_)
ToUppercase(s) ==
    IF Len(s) = 0 THEN ""
    ELSE LET c == Char(s, 1)
             p == Find(Lower, c)
         IN (IF IsSome(p) THEN Char(Upper, Unwrap(p) + 1) ELSE c)
            \o ToUppercase(Tail(s))

-----------------------------------------------------------------------------
(* message.rs: tag value escaping *)

\* fn unescape_tag_value: five replace passes, each over the whole string
unescape_tag_value(value) ==
    Replace(Replace(Replace(Replace(Replace(value,
        "\\:", ";"), "\\s", " "), "\\\\", "\\"), "\\r", "\r"), "\\n", "\n")

\* fn escape_tag_value
escape_tag_value(value) ==
    Replace(Replace(Replace(Replace(Replace(value,
        "\\", "\\\\"), ";", "\\:"), " ", "\\s"), "\r", "\\r"), "\n", "\\n")

\* the longest tag value that is tried
MaxTagValueLen == 3

TagValueChars == {";", " ", "\\", "\r", "\n", ":", "s", "r", "n"}

RECURSIVE StringsUpTo(_, _)
StringsUpTo(chars, n) ==
    IF n = 0 THEN {""}
    ELSE LET shorter == StringsUpTo(chars, n - 1)
         IN shorter \cup {s \o c : s \in shorter, c \in chars}

\* the tag values of at most n characters
TagValues(n) == StringsUpTo(TagValueChars, n)

TagInit ==
    /\ tag_value \in TagValues(MaxTagValueLen)
    /\ tag_escaped = ""
    /\ tag_unescaped = ""
    /\ tag_pc = "value"

TagIdle ==
    /\ tag_value = ""
    /\ tag_escaped = ""
    /\ tag_unescaped = ""
    /\ tag_pc = "idle"

\* Display for IrcMessage writes escape_tag_value(val)
EscapeTag ==
    /\ tag_pc = "value"
    /\ tag_escaped' = escape_tag_value(tag_value)
    /\ tag_pc' = "escaped"
    /\ UNCHANGED <<tag_value, tag_unescaped>>

\* FromStr for IrcMessage reads unescape_tag_value(value_str)
UnescapeTag ==
    /\ tag_pc = "escaped"
    /\ tag_unescaped' = unescape_tag_value(tag_escaped)
    /\ tag_pc' = "unescaped"
    /\ UNCHANGED <<tag_value, tag_escaped>>

-----------------------------------------------------------------------------
(* lib.rs: constants *)

MAX_MESSAGE_LENGTH == 512
MAX_TAG_LENGTH == 8191
MAX_PARAMS == 15
MAX_CAPABILITY_NAME_LENGTH == 64

-----------------------------------------------------------------------------
(* message.rs: IrcMessage, FromStr (parse) and Display (serialize) *)

\* U+0000 cannot be written in a string of this language: the character '~',
\* which no input of this model contains otherwise, stands for it
NUL == "~"

\* the ASCII characters the model's inputs are written in
Printable ==
    " !\"#$%&'()*+,-./0123456789:;<=>?@ABCDEFGHIJKLMNOPQRSTUVWXYZ[\\]^_abcdefghijklmnopqrstuvwxyz{|}~"

IsAsciiChar(c) == Contains(Printable, c) \/ c \in {"\t", "\n", "\r", "\f"}

\* str::is_ascii
IsAscii(s) == AllChars(s, IsAsciiChar)

\* HashMap::new and HashMap::insert on tags (key -> Option<String>)
EmptyMap == [k \in {} |-> None]
MapInsert(map, key, value) ==
    [k \in DOMAIN map \cup {key} |-> IF k = key THEN value ELSE map[k]]
MapRemove(map, key) == [k \in DOMAIN map \ {key} |-> map[k]]

\* IrcMessage::new(command) with the builder's setters applied
IrcMessage(tags, prefix, command, params) ==
    [tags |-> tags, prefix |-> prefix, command |-> command, params |-> params]

IsTagKeyChar(c) == IsAsciiAlphanumeric(c) \/ c \in {"-", "/", ".", "_", "+"}

\* fn is_valid_tag_key
is_valid_tag_key(key) ==
    /\ ~(key = "" \/ Len(key) > MAX_CAPABILITY_NAME_LENGTH)
    /\ AllChars(key, IsTagKeyChar)

INVALID_COMMANDS ==
    {"GET", "POST", "PUT", "DELETE", "HEAD", "OPTIONS", "PATCH",
     "HELO", "EHLO", "MAIL", "RCPT", "DATA", "RSET", "VRFY",
     "SYST", "STAT", "RETR", "DELE", "UIDL", "APOP",
     "AUTH", "LOGIN", "SELECT", "EXAMINE", "CREATE", "RENAME"}

\* is_valid_command taking any mix of letters and digits
is_valid_command_alphanumeric(command) ==
    /\ ~(command = "" \/ Len(command) > 32)
    /\ AllChars(command, IsAsciiAlphanumeric)
    /\ command \notin INVALID_COMMANDS

\* fn is_valid_command
is_valid_command(command) ==
    LET is_alpha_command == AllChars(command, IsAsciiAlphabetic)
        is_numeric_reply == Len(command) = 3 /\ AllChars(command, IsAsciiDigit)
    IN /\ ~(command = "" \/ Len(command) > 32)
       /\ (is_alpha_command \/ is_numeric_reply)
       /\ command \notin INVALID_COMMANDS

RECURSIVE SumOver(_, _)
SumOver(S, f) ==
    IF S = {} THEN 0
    ELSE LET x == CHOOSE y \in S : TRUE IN f[x] + SumOver(S \ {x}, f)

\* validate_security without its check of the prefix
validate_security_ignoring_prefix(msg) ==
    LET max_param_len == IF msg.command = "CAP" THEN 4096 ELSE MAX_MESSAGE_LENGTH
        bad_param(p) ==
            \/ Len(p) > max_param_len
            \/ Contains(p, NUL) \/ Contains(p, "\r") \/ Contains(p, "\n")
            \/ ~IsAscii(p)
        total_tag_length ==
            SumOver(DOMAIN msg.tags,
                    [k \in DOMAIN msg.tags |->
                        Len(k) + (IF IsSome(msg.tags[k]) THEN Len(Unwrap(msg.tags[k])) ELSE 0) + 2])
    IN IF Len(msg.command) > 32 THEN Err("SecurityViolation")
       ELSE IF Len(msg.params) > MAX_PARAMS THEN Err("SecurityViolation")
       ELSE IF \E i \in 1..Len(msg.params) : bad_param(msg.params[i])
            THEN Err("SecurityViolation")
       ELSE IF total_tag_length > MAX_TAG_LENGTH THEN Err("SecurityViolation")
       ELSE Ok(msg)

\* IrcMessage::validate_security
validate_security(msg) ==
    LET max_param_len == IF msg.command = "CAP" THEN 4096 ELSE MAX_MESSAGE_LENGTH
        bad_param(p) ==
            \/ Len(p) > max_param_len
            \/ Contains(p, NUL) \/ Contains(p, "\r") \/ Contains(p, "\n")
            \/ ~IsAscii(p)
        total_tag_length ==
            SumOver(DOMAIN msg.tags,
                    [k \in DOMAIN msg.tags |->
                        Len(k) + (IF IsSome(msg.tags[k]) THEN Len(Unwrap(msg.tags[k])) ELSE 0) + 2])
    IN IF Len(msg.command) > 32 THEN Err("SecurityViolation")
       ELSE IF Len(msg.params) > MAX_PARAMS THEN Err("SecurityViolation")
       ELSE IF \E i \in 1..Len(msg.params) : bad_param(msg.params[i])
            THEN Err("SecurityViolation")
       ELSE IF /\ IsSome(msg.prefix)
               /\ \/ Len(Unwrap(msg.prefix)) > 255
                  \/ Contains(Unwrap(msg.prefix), NUL)
                  \/ Contains(Unwrap(msg.prefix), " ")
            THEN Err("SecurityViolation")
       ELSE IF total_tag_length > MAX_TAG_LENGTH THEN Err("SecurityViolation")
       ELSE Ok(msg)

\* from_str, "Parse individual tags": the loop over tag_str.split(';')
RECURSIVE ParseTags(_, _)
ParseTags(pieces, tags) ==
    IF Len(pieces) = 0 THEN Ok(tags)
    ELSE LET tag == pieces[1]
             eq_pos == Find(tag, "=")
             key == IF IsSome(eq_pos) THEN Upto(tag, Unwrap(eq_pos)) ELSE tag
             value_str == IF IsSome(eq_pos) THEN From(tag, Unwrap(eq_pos) + 1) ELSE ""
             value == IF value_str = "" THEN None
                      ELSE Some(unescape_tag_value(value_str))
         IN IF tag = "" THEN ParseTags(Tail(pieces), tags)
            ELSE IF ~is_valid_tag_key(key) THEN Err("SecurityViolation")
            ELSE ParseTags(Tail(pieces), MapInsert(tags, key, value))

\* from_str, "Parse tags if present": Ok([tags, remaining]) or the error
ParseTagSection(remaining) ==
    LET space_pos == Find(remaining, " ")
        tag_str == SubSeq(remaining, 2, Unwrap(space_pos))
        tags == ParseTags(Split(tag_str, ";"), EmptyMap)
    IN IF ~StartsWith(remaining, "@")
       THEN Ok([tags |-> EmptyMap, remaining |-> remaining])
       ELSE IF ~IsSome(space_pos) THEN Err("Parse")
       ELSE IF Len(tag_str) > MAX_TAG_LENGTH THEN Err("SecurityViolation")
       ELSE IF ~IsOk(tags) THEN tags
       ELSE Ok([tags |-> tags.val, remaining |-> From(remaining, Unwrap(space_pos) + 1)])

\* from_str, "Parse prefix if present": Ok([prefix, remaining]) or the error
ParsePrefix(remaining) ==
    LET space_pos == Find(remaining, " ")
        prefix == SubSeq(remaining, 2, Unwrap(space_pos))
    IN IF ~StartsWith(remaining, ":")
       THEN Ok([prefix |-> None, remaining |-> remaining])
       ELSE IF ~IsSome(space_pos) THEN Err("Parse")
       ELSE IF Contains(prefix, " ") THEN Err("SecurityViolation")
       ELSE Ok([prefix |-> Some(prefix),
                remaining |-> From(remaining, Unwrap(space_pos) + 1)])

\* the parameter loop taking only the token with the colon for the trailing
\* parameter
RECURSIVE ParseParams_one_token(_, _, _)
ParseParams_one_token(parts, i, params) ==
    IF i >= Len(parts) THEN params
    ELSE IF StartsWith(parts[i + 1], ":") /\ i > 0
         THEN Append(params, From(parts[i + 1], 1))
    ELSE ParseParams_one_token(parts, i + 1, Append(params, parts[i + 1]))

\* from_str, "Parse parameters": the loop over parts, i counting from 0
RECURSIVE ParseParams(_, _, _)
ParseParams(parts, i, params) ==
    IF i >= Len(parts) THEN params
    ELSE IF StartsWith(parts[i + 1], ":") /\ i > 0
         THEN Append(params, From(Join(SubSeq(parts, i + 1, Len(parts)), " "), 1))
    ELSE ParseParams(parts, i + 1, Append(params, parts[i + 1]))

\* from_str reporting an oversize line as a Parse error
from_str_oversize_as_parse_error(input) ==
    LET trimmed == TrimEndMatches(input, "\r\n")
        tagged == ParseTagSection(trimmed)
        prefixed == ParsePrefix(tagged.val.remaining)
        parts == SplitN(15, prefixed.val.remaining, " ")
        command == ToUppercase(parts[1])
        msg == IrcMessage(tagged.val.tags, prefixed.val.prefix, command,
                          ParseParams(Tail(parts), 0, <<>>))
    IN IF Len(input) > MAX_MESSAGE_LENGTH + MAX_TAG_LENGTH THEN Err("Parse")
       ELSE IF ~IsOk(tagged) THEN tagged
       ELSE IF ~IsOk(prefixed) THEN prefixed
       ELSE IF Len(parts) = 0 THEN Err("Parse")
       ELSE IF ~is_valid_command(command) THEN Err("SecurityViolation")
       ELSE validate_security(msg)

\* <IrcMessage as FromStr>::from_str
from_str(input) ==
    LET trimmed == TrimEndMatches(input, "\r\n")
        tagged == ParseTagSection(trimmed)
        prefixed == ParsePrefix(tagged.val.remaining)
        parts == SplitN(15, prefixed.val.remaining, " ")
        command == ToUppercase(parts[1])
        msg == IrcMessage(tagged.val.tags, prefixed.val.prefix, command,
                          ParseParams(Tail(parts), 0, <<>>))
    IN IF Len(input) > MAX_MESSAGE_LENGTH + MAX_TAG_LENGTH THEN Err("SecurityViolation")
       ELSE IF ~IsOk(tagged) THEN tagged
       ELSE IF ~IsOk(prefixed) THEN prefixed
       ELSE IF Len(parts) = 0 THEN Err("Parse")
       ELSE IF ~is_valid_command(command) THEN Err("SecurityViolation")
       ELSE validate_security(msg)

\* Display, "Write tags if present": keys in the order the HashMap yields them
RECURSIVE FmtTags(_, _)
FmtTags(tags, order) ==
    IF Len(order) = 0 THEN ""
    ELSE LET key == order[1]
             one == key \o (IF IsSome(tags[key])
                            THEN "=" \o escape_tag_value(Unwrap(tags[key])) ELSE "")
         IN one \o (IF Len(order) > 1 THEN ";" ELSE "") \o FmtTags(tags, Tail(order))

\* the parameter loop writing a colon before every param that needs one
RECURSIVE FmtParams_colon_anywhere(_, _)
FmtParams_colon_anywhere(params, i) ==
    IF i >= Len(params) THEN ""
    ELSE LET param == params[i + 1]
         IN (IF Contains(param, " ") \/ StartsWith(param, ":")
             THEN " :" \o param ELSE " " \o param)
            \o FmtParams_colon_anywhere(params, i + 1)

\* Display, "Write parameters"
RECURSIVE FmtParams(_, _)
FmtParams(params, i) ==
    IF i >= Len(params) THEN ""
    ELSE LET param == params[i + 1]
         IN (IF i = Len(params) - 1 /\ (Contains(param, " ") \/ StartsWith(param, ":"))
             THEN " :" \o param ELSE " " \o param)
            \o FmtParams(params, i + 1)

\* <IrcMessage as Display>::fmt; order is the iteration order of msg.tags
fmt(msg, order) ==
    (IF DOMAIN msg.tags # {} THEN "@" \o FmtTags(msg.tags, order) \o " " ELSE "")
    \o (IF IsSome(msg.prefix) THEN ":" \o Unwrap(msg.prefix) \o " " ELSE "")
    \o msg.command
    \o FmtParams(msg.params, 0)
    \o "\r\n"

\* the iteration orders a HashMap with these keys can have: a HashMap's order
\* depends on its own random hasher keys, so every permutation is possible
IterationOrders(keys) ==
    {o \in [1..Cardinality(keys) -> keys] : \A i, j \in DOMAIN o : i # j => o[i] # o[j]}

-----------------------------------------------------------------------------
(* The codec round trip: a Message is serialized, the line is parsed, and   *)
(* the parsed Message is serialized again.                                  *)

\* the longest parameter and the longest short parameter list that are tried
MaxParamLen == 2
MaxParamCount == 2

ParamChars == {"a", " ", ":"}
\* the parameters of at most len characters
ParamStrings(len) == StringsUpTo(ParamChars, len)

\* a parameter that is not the last one: no space, no leading colon
MiddleParams(len) ==
    {p \in ParamStrings(len) : ~Contains(p, " ") /\ ~StartsWith(p, ":")}

\* the lists of at most n parameters of at most len characters
RECURSIVE ParamLists(_, _)
ParamLists(n, len) ==
    IF n = 0 THEN {<<>>}
    ELSE IF n = 1 THEN {<<>>} \cup {<<p>> : p \in ParamStrings(len)}
    ELSE LET shorter == ParamLists(n - 1, len)
         IN shorter \cup {<<p>> \o ps : p \in MiddleParams(len),
                                        ps \in {q \in shorter : Len(q) = n - 1}}

\* parameter lists at the limit of the data model (at most MAX_PARAMS)
LongParamLists == {[i \in 1..n |-> "a"] : n \in {MAX_PARAMS - 1, MAX_PARAMS}}

TagKeys == {"a", "b"}
TagValueOptions == {None, Some(""), Some("v"), Some("\\s")}
TagMaps == UNION {[ks -> TagValueOptions] : ks \in SUBSET TagKeys}

\* the Messages of the round trip: ASCII, no NUL, CR or LF, a valid uppercase
\* command, at most MAX_PARAMS params of which only the last may hold a space
\* or start with ':'; the tags vary over two short parameter lists, the
\* parameter lists vary without tags
Messages(n, len) ==
    {IrcMessage(t, pre, c, ps) :
        t \in TagMaps, pre \in {None, Some("n")}, c \in {"PING", "001"},
        ps \in {<<>>, <<"a", "a a">>}}
    \cup
    {IrcMessage(EmptyMap, pre, c, ps) :
        pre \in {None, Some("n")}, c \in {"PING", "001"},
        ps \in ParamLists(n, len) \cup LongParamLists}

CodecInit ==
    /\ message \in Messages(MaxParamCount, MaxParamLen)
    /\ line = ""
    /\ parsed = Err("")
    /\ line2 = ""
    /\ codec_pc = "built"

CodecIdle ==
    /\ message = IrcMessage(EmptyMap, None, "", <<>>)
    /\ line = ""
    /\ parsed = Err("")
    /\ line2 = ""
    /\ codec_pc = "idle"

\* message.to_string()
Serialize ==
    /\ codec_pc = "built"
    /\ \E order \in IterationOrders(DOMAIN message.tags) :
           line' = fmt(message, order)
    /\ codec_pc' = "serialized"
    /\ UNCHANGED <<message, parsed, line2>>

\* line.parse::<IrcMessage>()
Parse ==
    /\ codec_pc = "serialized"
    /\ parsed' = from_str(line)
    /\ codec_pc' = "parsed"
    /\ UNCHANGED <<message, line, line2>>

\* parsed.to_string(), when the parse succeeded
Reserialize ==
    /\ codec_pc = "parsed"
    /\ IsOk(parsed)
    /\ \E order \in IterationOrders(DOMAIN parsed.val.tags) :
           line2' = fmt(parsed.val, order)
    /\ codec_pc' = "reserialized"
    /\ UNCHANGED <<message, line, parsed>>

-----------------------------------------------------------------------------
(* capabilities.rs: CapabilityHandler.  A method taking &mut self is an     *)
(* operator from the handler (a record of its fields) and the arguments to  *)
(* [self |-> the handler afterwards, ret |-> what the call returns].        *)

CapabilitySpec(name, value, enabled) ==
    [name |-> name, value |-> value, enabled |-> enabled]

\* the handler as the record of its fields
Handler ==
    [version |-> version,
     available_caps |-> available_caps,
     requested_caps |-> requested_caps,
     enabled_caps |-> enabled_caps,
     negotiation_complete |-> negotiation_complete,
     sts_policies |-> sts_policies]

\* CapabilityHandler::new
NewHandler ==
    [version |-> 302,
     available_caps |-> EmptyMap,
     requested_caps |-> <<>>,
     enabled_caps |-> EmptyMap,
     negotiation_complete |-> FALSE,
     sts_policies |-> EmptyMap]

Return(self, ret) == [self |-> self, ret |-> ret]

\* `r?; ret`: the error of r returned early, or else ret
Then(r, ret) == IF IsOk(r.ret) THEN Return(r.self, ret) ELSE r

\* CapabilityHandler::get_essential_capabilities
get_essential_capabilities ==
    <<"sasl", "message-tags", "server-time", "batch", "+draft/react", "+draft/reply">>

\* Vec::contains / slice::contains
SeqContains(seq, x) == \E i \in 1..Len(seq) : seq[i] = x

\* Vec::retain(|c| c != x)
RECURSIVE RetainNot(_, _)
RetainNot(seq, x) ==
    IF Len(seq) = 0 THEN <<>>
    ELSE (IF seq[1] # x THEN <<seq[1]>> ELSE <<>>) \o RetainNot(Tail(seq), x)

\* CapabilityHandler::is_valid_capability_name
is_valid_capability_name(name) ==
    LET parts == Split(name, "/")
        vendor_ok ==
            \/ ~Contains(parts[1], ".")
            \/ EndsWith(parts[1], ".com") \/ EndsWith(parts[1], ".org")
            \/ EndsWith(parts[1], ".net") \/ EndsWith(parts[1], ".chat")
            \/ EndsWith(parts[1], ".in")
    IN /\ ~(name = "" \/ Len(name) > 64)
       /\ ~StartsWith(name, "-")
       /\ Contains(name, "/") => (Len(parts) = 2 /\ vendor_ok)
       /\ AllChars(name, IsTagKeyChar)

\* the loop of parse_capabilities carrying a newly advertised value over to
\* the enabled capability of the same name
RECURSIVE ParseCapTokens_refreshing(_, _)
ParseCapTokens_refreshing(self, tokens) ==
    IF Len(tokens) = 0 THEN Return(self, Ok(<<>>))
    ELSE LET cap_spec == tokens[1]
             eq_pos == Find(cap_spec, "=")
             name == IF IsSome(eq_pos) THEN Upto(cap_spec, Unwrap(eq_pos)) ELSE cap_spec
             value == IF IsSome(eq_pos) THEN Some(From(cap_spec, Unwrap(eq_pos) + 1))
                      ELSE None
         IN IF ~is_valid_capability_name(name)
            THEN Return(self, Err("SecurityViolation"))
            ELSE ParseCapTokens_refreshing(
                     [self EXCEPT
                         !.available_caps =
                             MapInsert(@, name, CapabilitySpec(name, value, FALSE)),
                         !.enabled_caps =
                             IF name \in DOMAIN @
                             THEN MapInsert(@, name, CapabilitySpec(name, value, TRUE))
                             ELSE @],
                     Tail(tokens))

\* CapabilityHandler::parse_capabilities, the loop over the tokens: an invalid
\* name returns the error and keeps what the earlier tokens inserted
RECURSIVE ParseCapTokens(_, _)
ParseCapTokens(self, tokens) ==
    IF Len(tokens) = 0 THEN Return(self, Ok(<<>>))
    ELSE LET cap_spec == tokens[1]
             eq_pos == Find(cap_spec, "=")
             name == IF IsSome(eq_pos) THEN Upto(cap_spec, Unwrap(eq_pos)) ELSE cap_spec
             value == IF IsSome(eq_pos) THEN Some(From(cap_spec, Unwrap(eq_pos) + 1))
                      ELSE None
         IN IF ~is_valid_capability_name(name)
            THEN Return(self, Err("SecurityViolation"))
            ELSE ParseCapTokens(
                     [self EXCEPT !.available_caps =
                         MapInsert(@, name, CapabilitySpec(name, value, FALSE))],
                     Tail(tokens))

\* parse_capabilities applying a list wholly or not at all
parse_capabilities_atomic(self, caps_str) ==
    LET r == ParseCapTokens(self, SplitWhitespace(caps_str))
    IN IF IsOk(r.ret) THEN r ELSE Return(self, r.ret)

\* CapabilityHandler::parse_capabilities
parse_capabilities(self, caps_str) == ParseCapTokens(self, SplitWhitespace(caps_str))

\* CapabilityHandler::set_version
set_version(self, v) == Return([self EXCEPT !.version = v], Ok(<<>>))

\* handle_cap_ls taking any third parameter as the capability list, whatever
\* the marker says
handle_cap_ls_any_third(self, params) ==
    LET is_multiline == Len(params) > 2
        caps_list == IF is_multiline THEN params[3] ELSE params[2]
    IN IF Len(params) < 2 THEN Return(self, Err("Parse"))
       ELSE Then(parse_capabilities(self, caps_list), Ok(~is_multiline))

\* CapabilityHandler::handle_cap_ls
handle_cap_ls(self, params) ==
    LET is_multiline == Len(params) > 2 /\ params[2] = "*"
        caps_list == IF is_multiline THEN params[3] ELSE params[2]
    IN IF Len(params) < 2 THEN Return(self, Err("Parse"))
       ELSE Then(parse_capabilities(self, caps_list), Ok(~is_multiline))

\* every name of every ACK parameter, in order
RECURSIVE AckNames(_)
AckNames(caps) ==
    IF Len(caps) = 0 THEN <<>> ELSE SplitWhitespace(caps[1]) \o AckNames(Tail(caps))

RECURSIVE EnableNames(_, _)
EnableNames(self, names) ==
    IF Len(names) = 0 THEN self
    ELSE LET cap_name == Trim(names[1])
             enabled_cap == [self.available_caps[cap_name] EXCEPT !.enabled = TRUE]
         IN EnableNames(
                IF cap_name # "" /\ cap_name \in DOMAIN self.available_caps
                THEN [self EXCEPT !.enabled_caps = MapInsert(@, cap_name, enabled_cap)]
                ELSE self,
                Tail(names))

\* handle_cap_ack taking each parameter for one name
handle_cap_ack_unsplit(self, caps) == Return(EnableNames(self, caps), Ok(<<>>))

\* CapabilityHandler::handle_cap_ack
handle_cap_ack(self, caps) == Return(EnableNames(self, AckNames(caps)), Ok(<<>>))

\* handle_cap_nak without the check for the trust-critical names
RECURSIVE handle_cap_nak_lenient(_, _)
handle_cap_nak_lenient(self, caps) ==
    IF Len(caps) = 0 THEN Return(self, Ok(<<>>))
    ELSE handle_cap_nak_lenient(
             [self EXCEPT !.requested_caps = RetainNot(@, caps[1])], Tail(caps))

\* handle_cap_nak refusing "sasl" and "sts" whether essential or not
RECURSIVE handle_cap_nak_either(_, _)
handle_cap_nak_either(self, caps) ==
    IF Len(caps) = 0 THEN Return(self, Ok(<<>>))
    ELSE IF caps[1] \in {"sasl", "sts"} THEN Return(self, Err("SecurityViolation"))
         ELSE handle_cap_nak_either(
                  [self EXCEPT !.requested_caps = RetainNot(@, caps[1])], Tail(caps))

\* CapabilityHandler::handle_cap_nak
RECURSIVE handle_cap_nak(_, _)
handle_cap_nak(self, caps) ==
    IF Len(caps) = 0 THEN Return(self, Ok(<<>>))
    ELSE LET cap == caps[1]
         IN IF SeqContains(get_essential_capabilities, cap) /\ cap \in {"sasl", "sts"}
            THEN Return(self, Err("SecurityViolation"))
            ELSE handle_cap_nak(
                     [self EXCEPT !.requested_caps = RetainNot(@, cap)], Tail(caps))

\* handle_cap_new, the loop that collects new_requests
RECURSIVE NewRequests(_)
NewRequests(tokens) ==
    IF Len(tokens) = 0 THEN <<>>
    ELSE LET cap_name == Split(tokens[1], "=")[1]
         IN (IF SeqContains(get_essential_capabilities, cap_name)
             THEN <<cap_name>> ELSE <<>>)
            \o NewRequests(Tail(tokens))

\* handle_cap_new recording the names it returns as requested
handle_cap_new_requesting(self, caps_str) ==
    LET r == parse_capabilities(self, caps_str)
        new_requests == NewRequests(SplitWhitespace(caps_str))
    IN IF self.version < 302 THEN Return(self, Ok(<<>>))
       ELSE IF ~IsOk(r.ret) THEN r
       ELSE Return([r.self EXCEPT !.requested_caps = @ \o new_requests],
                   Ok(new_requests))

\* handle_cap_new without the version gate
handle_cap_new_ungated(self, caps_str) ==
    Then(parse_capabilities(self, caps_str),
         Ok(NewRequests(SplitWhitespace(caps_str))))

\* CapabilityHandler::handle_cap_new
handle_cap_new(self, caps_str) ==
    IF self.version < 302 THEN Return(self, Ok(<<>>))
    ELSE Then(parse_capabilities(self, caps_str),
              Ok(NewRequests(SplitWhitespace(caps_str))))

\* handle_cap_del forgetting enabled_caps
RECURSIVE handle_cap_del_available_only(_, _)
handle_cap_del_available_only(self, caps) ==
    IF Len(caps) = 0 THEN Return(self, Ok(<<>>))
    ELSE handle_cap_del_available_only(
             [self EXCEPT !.available_caps = MapRemove(@, caps[1])], Tail(caps))

\* handle_cap_del stopping after the first name
handle_cap_del_first_only(self, caps) ==
    IF Len(caps) = 0 THEN Return(self, Ok(<<>>))
    ELSE Return([self EXCEPT !.available_caps = MapRemove(@, caps[1]),
                             !.enabled_caps = MapRemove(@, caps[1])], Ok(<<>>))

\* handle_cap_del ignoring the notification once negotiation is complete
RECURSIVE handle_cap_del_until_complete(_, _)
handle_cap_del_until_complete(self, caps) ==
    IF Len(caps) = 0 \/ self.negotiation_complete THEN Return(self, Ok(<<>>))
    ELSE handle_cap_del_until_complete(
             [self EXCEPT !.available_caps = MapRemove(@, caps[1]),
                          !.enabled_caps = MapRemove(@, caps[1])],
             Tail(caps))

\* CapabilityHandler::handle_cap_del
RECURSIVE handle_cap_del(_, _)
handle_cap_del(self, caps) ==
    IF Len(caps) = 0 THEN Return(self, Ok(<<>>))
    ELSE handle_cap_del(
             [self EXCEPT !.available_caps = MapRemove(@, caps[1]),
                          !.enabled_caps = MapRemove(@, caps[1])],
             Tail(caps))

\* CapabilityHandler::is_capability_enabled
is_capability_enabled(self, cap_name) == cap_name \in DOMAIN self.enabled_caps

\* CapabilityHandler::validate_sasl_mechanisms
validate_sasl_mechanisms(self, sasl_cap) ==
    LET mechanisms == Split(Unwrap(sasl_cap.value), ",")
        preferred_order == <<"SCRAM-SHA-256", "EXTERNAL", "PLAIN">>
    IN IF IsSome(sasl_cap.value)
       THEN IF \E p \in 1..Len(preferred_order) :
                  \E m \in 1..Len(mechanisms) : Trim(mechanisms[m]) = preferred_order[p]
            THEN Ok(<<>>)
            ELSE Err("Auth")
       ELSE Ok(<<>>)

\* get_capabilities_to_request keeping "sasl" whatever its value
get_capabilities_to_request_unvalidated(self) ==
    SelectSeq(get_essential_capabilities,
              LAMBDA cap_name : cap_name \in DOMAIN self.available_caps)

\* CapabilityHandler::get_capabilities_to_request
get_capabilities_to_request(self) ==
    LET caps_to_request ==
            SelectSeq(get_essential_capabilities,
                      LAMBDA cap_name : cap_name \in DOMAIN self.available_caps)
    IN IF /\ "sasl" \in DOMAIN self.available_caps
          /\ ~IsOk(validate_sasl_mechanisms(self, self.available_caps["sasl"]))
       THEN RetainNot(caps_to_request, "sasl")
       ELSE caps_to_request

\* CapabilityHandler::set_negotiation_complete
set_negotiation_complete(self) ==
    Return([self EXCEPT !.negotiation_complete = TRUE], Ok(<<>>))

\* get_sasl_mechanisms reading the advertised capability, not the enabled one
get_sasl_mechanisms_of_available(self) ==
    LET parts == Split(Unwrap(self.available_caps["sasl"].value), ",")
    IN IF "sasl" \in DOMAIN self.available_caps /\ IsSome(self.available_caps["sasl"].value)
       THEN [i \in 1..Len(parts) |-> Trim(parts[i])]
       ELSE <<>>

\* CapabilityHandler::get_sasl_mechanisms
get_sasl_mechanisms(self) ==
    LET parts == Split(Unwrap(self.enabled_caps["sasl"].value), ",")
    IN IF "sasl" \in DOMAIN self.enabled_caps /\ IsSome(self.enabled_caps["sasl"].value)
       THEN [i \in 1..Len(parts) |-> Trim(parts[i])]
       ELSE <<>>

\* CapabilityHandler::is_negotiation_complete
is_negotiation_complete(self) == self.negotiation_complete

-----------------------------------------------------------------------------
(* 64-bit arithmetic.  A natural number below 10^27 is <<hi, mid, lo>> with *)
(* value hi * 10^18 + mid * 10^9 + lo and mid, lo < 10^9, so that u64 and   *)
(* i64 values keep their full width.                                        *)

Limb == 10^9

BigOf(n) == <<0, 0, n>>

BigLt(a, b) ==
    \/ a[1] < b[1]
    \/ a[1] = b[1] /\ a[2] < b[2]
    \/ a[1] = b[1] /\ a[2] = b[2] /\ a[3] < b[3]

BigLe(a, b) == a = b \/ BigLt(a, b)

BigAdd(a, b) ==
    LET lo == a[3] + b[3]
        mid == a[2] + b[2] + (IF lo >= Limb THEN 1 ELSE 0)
        hi == a[1] + b[1] + (IF mid >= Limb THEN 1 ELSE 0)
    IN <<hi, mid % Limb, lo % Limb>>

\* u64::MAX = 18446744073709551615, i64::MAX = 9223372036854775807,
\* u32::MAX = 4294967295, u16::MAX = 65535
U64_MAX == <<18, 446744073, 709551615>>
I64_MAX == <<9, 223372036, 854775807>>
U32_MAX == <<0, 4, 294967295>>
U16_MAX == <<0, 0, 65535>>

RECURSIVE StripZeros(_)
StripZeros(s) == IF Len(s) > 1 /\ Char(s, 1) = "0" THEN StripZeros(Tail(s)) ELSE s

\* the value of at most nine decimal digits
RECURSIVE DecValue(_)
DecValue(s) ==
    IF Len(s) = 0 THEN 0
    ELSE DecValue(SubSeq(s, 1, Len(s) - 1)) * 10 + Unwrap(Find(Digits, Char(s, Len(s))))

\* the last n characters that remain once the last skip characters are cut off
Group(s, skip, n) ==
    IF Len(s) <= skip THEN ""
    ELSE SubSeq(s, IF Len(s) - skip - n + 1 < 1 THEN 1 ELSE Len(s) - skip - n + 1,
                Len(s) - skip)

\* <uN as FromStr>::from_str: an optional '+', then one or more decimal
\* digits, no whitespace; Err on anything else and on a value above max
ParseUnsigned(s, max) ==
    LET body == IF StartsWith(s, "+") THEN Tail(s) ELSE s
        digits == StripZeros(body)
        value == <<DecValue(Group(digits, 18, 9)), DecValue(Group(digits, 9, 9)),
                   DecValue(Group(digits, 0, 9))>>
    IN IF body = "" \/ ~AllChars(body, IsAsciiDigit) THEN Err("ParseIntError")
       ELSE IF Len(digits) > 27 THEN Err("ParseIntError")
       ELSE IF BigLt(max, value) THEN Err("ParseIntError")
       ELSE Ok(value)

-----------------------------------------------------------------------------
(* capabilities.rs: the STS policy cache *)

StsPolicy(duration, port, preload, expires_at) ==
    [duration |-> duration, port |-> port, preload |-> preload,
     expires_at |-> expires_at]

\* handle_sts_policy, the loop over cap_value.split(','): the attributes read
\* so far are acc; an unparsable duration or port returns the Parse error
RECURSIVE ParseStsParams(_, _)
ParseStsParams(params, acc) ==
    IF Len(params) = 0 THEN Ok(acc)
    ELSE LET parts == SplitN(2, params[1], "=")
             key == Trim(parts[1])
             number == ParseUnsigned(parts[2], IF key = "duration" THEN U64_MAX ELSE U16_MAX)
         IN IF key = "duration" /\ Len(parts) > 1
            THEN IF ~IsOk(number) THEN Err("Parse")
                 ELSE ParseStsParams(Tail(params), [acc EXCEPT !.duration = Some(number.val)])
            ELSE IF key = "port" /\ Len(parts) > 1
            THEN IF ~IsOk(number) THEN Err("Parse")
                 ELSE ParseStsParams(Tail(params), [acc EXCEPT !.port = Some(number.val[3])])
            ELSE IF key = "preload"
            THEN ParseStsParams(Tail(params), [acc EXCEPT !.preload = TRUE])
            ELSE ParseStsParams(Tail(params), acc)

\* SystemTime + Duration: the seconds are an i64, the sum panics ("overflow
\* when adding duration to instant") when it does not fit
SystemTimeAdd(time, duration) ==
    LET sum == BigAdd(time, duration)
    IN IF BigLt(I64_MAX, sum) THEN Panic ELSE Ok(sum)

\* handle_sts_policy once the attributes are read (or reading them failed)
ApplyStsPolicy(self, hostname, clock, attrs) ==
    LET duration == Unwrap(attrs.val.duration)
        expires_at == SystemTimeAdd(BigOf(clock), duration)
        policy == StsPolicy(duration, attrs.val.port, attrs.val.preload, expires_at.val)
    IN IF ~IsOk(attrs) THEN Return(self, attrs)
       ELSE IF ~IsSome(attrs.val.duration) THEN Return(self, Err("Parse"))
       ELSE IF duration = BigOf(0)
            THEN Return([self EXCEPT !.sts_policies = MapRemove(@, hostname)], Ok(<<>>))
       ELSE IF ~IsOk(expires_at) THEN Return(self, Panic)
       ELSE Return([self EXCEPT !.sts_policies = MapInsert(@, hostname, policy)],
                   Ok(<<>>))

\* handle_sts_policy dropping the policy of the hostname when the value does
\* not parse
handle_sts_policy_revoking(self, hostname, cap_value, clock) ==
    LET attrs == ParseStsParams(Split(cap_value, ","),
                                [duration |-> None, port |-> None, preload |-> FALSE])
    IN IF ~IsOk(attrs) \/ ~IsSome(attrs.val.duration)
       THEN Return([self EXCEPT !.sts_policies = MapRemove(@, hostname)], Err("Parse"))
       ELSE ApplyStsPolicy(self, hostname, clock, attrs)

\* CapabilityHandler::handle_sts_policy; clock is what SystemTime::now() reads
handle_sts_policy(self, hostname, cap_value, clock) ==
    ApplyStsPolicy(self, hostname, clock,
                   ParseStsParams(Split(cap_value, ","),
                                  [duration |-> None, port |-> None, preload |-> FALSE]))

\* should_upgrade_to_tls with the policy still in force at expires_at itself
should_upgrade_to_tls_inclusive(self, hostname, clock) ==
    IF /\ hostname \in DOMAIN self.sts_policies
       /\ BigLe(BigOf(clock), self.sts_policies[hostname].expires_at)
    THEN IF IsSome(self.sts_policies[hostname].port)
         THEN self.sts_policies[hostname].port ELSE Some(6697)
    ELSE None

\* CapabilityHandler::should_upgrade_to_tls; clock is what SystemTime::now() reads
should_upgrade_to_tls(self, hostname, clock) ==
    IF /\ hostname \in DOMAIN self.sts_policies
       /\ BigLt(BigOf(clock), self.sts_policies[hostname].expires_at)
    THEN IF IsSome(self.sts_policies[hostname].port)
         THEN self.sts_policies[hostname].port ELSE Some(6697)
    ELSE None

-----------------------------------------------------------------------------
(* sasl.rs: SaslAuth.  Base64 is an injective encoding with a recognisable  *)
(* image: the encoding of x is written b64(x), and a text that is not of    *)
(* this form does not decode.  The digest functions are free constructors.  *)

BASE64_encode(bytes) == "b64(" \o bytes \o ")"

BASE64_decode(text) ==
    IF StartsWith(text, "b64(") /\ EndsWith(text, ")")
    THEN Ok(SubSeq(text, 5, Len(text) - 1))
    ELSE Err("DecodeError")

\* a byte that no UTF-8 text contains (0xFF) is written '?'
INVALID_UTF8_BYTE == "?"

\* String::from_utf8
from_utf8(bytes) ==
    IF Contains(bytes, INVALID_UTF8_BYTE) THEN Err("FromUtf8Error") ELSE Ok(bytes)

\* SaslAuth::pbkdf2_sha256
pbkdf2_sha256(pass, salt_bytes, rounds) ==
    Ok("PBKDF2(" \o pass \o "|" \o salt_bytes \o "|" \o rounds \o ")")

\* SaslAuth::hmac_sha256
hmac_sha256(key, data) == Ok("HMAC(" \o key \o "|" \o data \o ")")

\* Sha256::digest
Sha256_digest(data) == "SHA256(" \o data \o ")"

\* the byte-wise XOR of client_key and client_signature
Xor(a, b) == "XOR(" \o a \o "|" \o b \o ")"

\* the SaslAuth as the record of its fields
Auth ==
    [mechanism |-> mechanism, username |-> username, password |-> password,
     client_nonce |-> client_nonce, server_nonce |-> server_nonce, salt |-> salt,
     iterations |-> iterations, state |-> state]

\* SaslAuth::new
NewAuth(mech, user, pass) ==
    [mechanism |-> mech, username |-> user, password |-> pass,
     client_nonce |-> None, server_nonce |-> None, salt |-> None,
     iterations |-> None, state |-> "Initial"]

\* generate_plain_response taking a missing password for the empty one
generate_plain_response_defaulting(self) ==
    Return(self, Ok(BASE64_encode(NUL \o self.username \o NUL
                                  \o (IF IsSome(self.password) THEN Unwrap(self.password)
                                      ELSE ""))))

\* SaslAuth::generate_plain_response
generate_plain_response(self) ==
    IF ~IsSome(self.password) THEN Return(self, Err("Sasl"))
    ELSE Return(self, Ok(BASE64_encode(NUL \o self.username \o NUL \o Unwrap(self.password))))

\* SaslAuth::generate_scram_initial; nonce is the base64 text of the 16 bytes
\* that rand::thread_rng() yields
generate_scram_initial(self, nonce) ==
    Return([self EXCEPT !.client_nonce = Some(nonce), !.state = "Authenticating"],
           Ok(BASE64_encode("n,,n=" \o self.username \o ",r=" \o nonce)))

\* generate_initial_response entering Authenticating for every mechanism
generate_initial_response_entering(self, nonce) ==
    LET entered == [self EXCEPT !.state = "Authenticating"]
    IN CASE self.mechanism = "Plain" ->
                Return(entered, generate_plain_response(self).ret)
         [] self.mechanism = "External" -> Return(entered, Ok(BASE64_encode("")))
         [] self.mechanism = "ScramSha256" -> generate_scram_initial(self, nonce)

\* SaslAuth::generate_initial_response
generate_initial_response(self, nonce) ==
    CASE self.mechanism = "Plain" -> generate_plain_response(self)
      [] self.mechanism = "External" -> Return(self, Ok(BASE64_encode("")))
      [] self.mechanism = "ScramSha256" -> generate_scram_initial(self, nonce)

\* the loop over the attributes accepting any server nonce
RECURSIVE ParseScramParts_any_nonce(_, _, _)
ParseScramParts_any_nonce(parts, nonce, acc) ==
    IF Len(parts) = 0 THEN Ok(acc)
    ELSE LET part == parts[1]
             value == From(part, 2)
             salt_bytes == BASE64_decode(value)
             count == ParseUnsigned(value, U32_MAX)
         IN IF StartsWith(part, "r=")
            THEN ParseScramParts_any_nonce(Tail(parts), nonce,
                                           [acc EXCEPT !.server_nonce = Some(value)])
            ELSE IF StartsWith(part, "s=")
            THEN IF ~IsOk(salt_bytes) THEN Err("Sasl")
                 ELSE ParseScramParts_any_nonce(Tail(parts), nonce,
                                                [acc EXCEPT !.salt = Some(salt_bytes.val)])
            ELSE IF StartsWith(part, "i=")
            THEN IF ~IsOk(count) THEN Err("Sasl")
                 ELSE ParseScramParts_any_nonce(Tail(parts), nonce,
                                                [acc EXCEPT !.iterations = Some(StripZeros(
                                                    IF StartsWith(value, "+") THEN Tail(value) ELSE value))])
            ELSE ParseScramParts_any_nonce(Tail(parts), nonce, acc)

\* process_scram_challenge, the loop over challenge.split(','): acc holds
\* server_nonce, salt and iterations as read so far
RECURSIVE ParseScramParts(_, _, _)
ParseScramParts(parts, nonce, acc) ==
    IF Len(parts) = 0 THEN Ok(acc)
    ELSE LET part == parts[1]
             value == From(part, 2)
             salt_bytes == BASE64_decode(value)
             count == ParseUnsigned(value, U32_MAX)
         IN IF StartsWith(part, "r=")
            THEN IF ~StartsWith(value, nonce) THEN Err("Sasl")
                 ELSE ParseScramParts(Tail(parts), nonce,
                                      [acc EXCEPT !.server_nonce = Some(value)])
            ELSE IF StartsWith(part, "s=")
            THEN IF ~IsOk(salt_bytes) THEN Err("Sasl")
                 ELSE ParseScramParts(Tail(parts), nonce,
                                      [acc EXCEPT !.salt = Some(salt_bytes.val)])
            ELSE IF StartsWith(part, "i=")
            THEN IF ~IsOk(count) THEN Err("Sasl")
                 ELSE ParseScramParts(Tail(parts), nonce,
                                      [acc EXCEPT !.iterations = Some(StripZeros(
                                          IF StartsWith(value, "+") THEN Tail(value) ELSE value))])
            ELSE ParseScramParts(Tail(parts), nonce, acc)

\* process_scram_challenge taking a well-formed challenge for success
process_scram_challenge_inferring(self, challenge) ==
    LET nonce == IF IsSome(self.client_nonce) THEN Unwrap(self.client_nonce) ELSE ""
        attrs == ParseScramParts(Split(challenge, ","), nonce,
                                 [server_nonce |-> None, salt |-> None, iterations |-> None])
    IN IF /\ IsSome(self.password) /\ IsSome(self.client_nonce) /\ IsOk(attrs)
          /\ IsSome(attrs.val.server_nonce) /\ IsSome(attrs.val.salt)
          /\ IsSome(attrs.val.iterations)
       THEN Return([self EXCEPT !.state = "Success"], Ok(BASE64_encode("c=biws")))
       ELSE Return(self, Err("Sasl"))

\* SaslAuth::process_scram_challenge
process_scram_challenge(self, challenge) ==
    LET pass == Unwrap(self.password)
        nonce == Unwrap(self.client_nonce)
        attrs == ParseScramParts(Split(challenge, ","), nonce,
                                 [server_nonce |-> None, salt |-> None, iterations |-> None])
        srv == Unwrap(attrs.val.server_nonce)
        salt_bytes == Unwrap(attrs.val.salt)
        rounds == Unwrap(attrs.val.iterations)
        stored == [self EXCEPT !.server_nonce = Some(srv), !.salt = Some(salt_bytes),
                               !.iterations = Some(rounds)]
        salted_password == pbkdf2_sha256(pass, salt_bytes, rounds).val
        client_key == hmac_sha256(salted_password, "Client Key").val
        stored_key == Sha256_digest(client_key)
        auth_message == "n=" \o self.username \o ",r=" \o nonce \o ",r=" \o srv
                        \o ",s=" \o BASE64_encode(salt_bytes) \o ",i=" \o rounds
                        \o ",c=biws,r=" \o srv
        client_signature == hmac_sha256(stored_key, auth_message).val
        client_proof == Xor(client_key, client_signature)
        response == "c=biws,r=" \o srv \o ",p=" \o BASE64_encode(client_proof)
    IN IF ~IsSome(self.password) THEN Return(self, Err("Sasl"))
       ELSE IF ~IsSome(self.client_nonce) THEN Return(self, Err("Sasl"))
       ELSE IF ~IsOk(attrs) THEN Return(self, Err("Sasl"))
       ELSE IF ~IsSome(attrs.val.server_nonce) THEN Return(self, Err("Sasl"))
       ELSE IF ~IsSome(attrs.val.salt) THEN Return(self, Err("Sasl"))
       ELSE IF ~IsSome(attrs.val.iterations) THEN Return(self, Err("Sasl"))
       ELSE Return(stored, Ok(BASE64_encode(response)))

\* process_challenge marking the exchange failed when it rejects a challenge
process_challenge_failing(self, challenge) ==
    Return([self EXCEPT !.state = "Failed"], Err("Sasl"))

\* process_challenge answering a decodable challenge with the empty response
\* for External
process_challenge_external_answering(self, challenge) ==
    LET challenge_data == BASE64_decode(challenge)
        challenge_str == from_utf8(challenge_data.val)
    IN IF ~IsOk(challenge_data) THEN Return(self, Err("Sasl"))
       ELSE IF ~IsOk(challenge_str) THEN Return(self, Err("Sasl"))
       ELSE CASE self.mechanism = "Plain" -> Return(self, Err("Sasl"))
              [] self.mechanism = "External" -> Return(self, Ok(BASE64_encode("")))
              [] self.mechanism = "ScramSha256" ->
                    process_scram_challenge(self, challenge_str.val)

\* process_challenge discarding the client nonce when it rejects a challenge
process_challenge_discarding(self, challenge) ==
    LET challenge_data == BASE64_decode(challenge)
        challenge_str == from_utf8(challenge_data.val)
        discarded == [self EXCEPT !.client_nonce = None]
        answered == process_scram_challenge(self, challenge_str.val)
    IN IF ~IsOk(challenge_data) THEN Return(discarded, Err("Sasl"))
       ELSE IF ~IsOk(challenge_str) THEN Return(discarded, Err("Sasl"))
       ELSE IF self.mechanism # "ScramSha256" THEN Return(discarded, Err("Sasl"))
       ELSE IF IsOk(answered.ret) THEN answered
       ELSE Return(discarded, Err("Sasl"))

\* SaslAuth::process_challenge
process_challenge(self, challenge) ==
    LET challenge_data == BASE64_decode(challenge)
        challenge_str == from_utf8(challenge_data.val)
    IN IF ~IsOk(challenge_data) THEN Return(self, Err("Sasl"))
       ELSE IF ~IsOk(challenge_str) THEN Return(self, Err("Sasl"))
       ELSE CASE self.mechanism = "Plain" -> Return(self, Err("Sasl"))
              [] self.mechanism = "External" -> Return(self, Err("Sasl"))
              [] self.mechanism = "ScramSha256" ->
                    process_scram_challenge(self, challenge_str.val)

\* SaslAuth::mark_success
mark_success(self) == Return([self EXCEPT !.state = "Success"], Ok(<<>>))

\* SaslAuth::mark_failed
mark_failed(self) == Return([self EXCEPT !.state = "Failed"], Ok(<<>>))

\* is_complete counting Success only
is_complete_on_success(self) == self.state = "Success"

\* SaslAuth::is_complete
is_complete(self) == self.state \in {"Success", "Failed"}

\* SaslAuth::is_success
is_success(self) == self.state = "Success"

\* SaslMechanism::from_str
SaslMechanism_from_str(s) ==
    LET upper == ToUppercase(s)
    IN IF upper = "PLAIN" THEN Some("Plain")
       ELSE IF upper = "EXTERNAL" THEN Some("External")
       ELSE IF upper = "SCRAM-SHA-256" THEN Some("ScramSha256")
       ELSE None

\* SaslMechanism::is_secure
is_secure(m) == m # "Plain"

\* SaslMechanism::security_strength
security_strength(m) ==
    CASE m = "Plain" -> 1
      [] m = "External" -> 3
      [] m = "ScramSha256" -> 2

\* choose_best_mechanism, the filter_map over available
RECURSIVE FilterMapMechanisms(_)
FilterMapMechanisms(available) ==
    IF Len(available) = 0 THEN <<>>
    ELSE SaslMechanism_from_str(available[1]) \o FilterMapMechanisms(Tail(available))

\* choose_best_mechanism, sort_by descending security_strength: the sort is
\* stable, so mechanisms of one strength keep their order
SortByStrength(mechanisms) ==
    SelectSeq(mechanisms, LAMBDA m : security_strength(m) = 3)
    \o SelectSeq(mechanisms, LAMBDA m : security_strength(m) = 2)
    \o SelectSeq(mechanisms, LAMBDA m : security_strength(m) = 1)

\* choose_best_mechanism taking the first mechanism listed, unsorted
choose_best_mechanism_unsorted(available, tls_enabled) ==
    LET mechanisms == FilterMapMechanisms(available)
        retained == IF ~tls_enabled THEN SelectSeq(mechanisms, is_secure) ELSE mechanisms
    IN IF Len(retained) = 0 THEN None ELSE Some(retained[1])

\* choose_best_mechanism
choose_best_mechanism(available, tls_enabled) ==
    LET mechanisms == SortByStrength(FilterMapMechanisms(available))
        retained == IF ~tls_enabled THEN SelectSeq(mechanisms, is_secure) ELSE mechanisms
    IN IF Len(retained) = 0 THEN None ELSE Some(retained[1])

-----------------------------------------------------------------------------
(* admin.rs: MemberRole, the roles of a channel from the highest down *)

MemberRole ==
    {"Founder", "Owner", "Admin", "Operator", "HalfOp", "Voice", "Member",
     "Restricted", "Muted"}

\* MemberRole::hierarchy_level
hierarchy_level(self) ==
    CASE self = "Founder" -> 100
      [] self = "Owner" -> 90
      [] self = "Admin" -> 80
      [] self = "Operator" -> 70
      [] self = "HalfOp" -> 60
      [] self = "Voice" -> 50
      [] self = "Member" -> 40
      [] self = "Restricted" -> 30
      [] self = "Muted" -> 20

\* can_manage_role deciding by the levels alone
can_manage_role_by_level(self, target_role) ==
    hierarchy_level(self) >= hierarchy_level(target_role)

\* MemberRole::can_manage_role: the arms of the match, the first that applies
can_manage_role(self, target_role) ==
    CASE self = "Founder" -> TRUE
      [] self = "Owner" /\ target_role = "Founder" -> FALSE
      [] self = "Owner" -> TRUE
      [] self = "Admin" /\ target_role \in {"Founder", "Owner"} -> FALSE
      [] self = "Admin" -> TRUE
      [] self = "Operator" /\ target_role \in {"Founder", "Owner", "Admin"} -> FALSE
      [] self = "Operator" -> TRUE
      [] OTHER -> FALSE

\* ChannelAdmin::can_manage_user_role of the admin context of a user with
\* the role user_role
can_manage_user_role(user_role, target_role) == can_manage_role(user_role, target_role)

-----------------------------------------------------------------------------
(* The components at rest, and the calls made on them *)

Call(op, args) == [op |-> op, args |-> args]

CallInit ==
    /\ call = Call("new", <<>>)
    /\ result = Ok(<<>>)

CapInit ==
    /\ version = NewHandler.version
    /\ available_caps = NewHandler.available_caps
    /\ requested_caps = NewHandler.requested_caps
    /\ enabled_caps = NewHandler.enabled_caps
    /\ negotiation_complete = NewHandler.negotiation_complete

StsInit ==
    /\ sts_policies = NewHandler.sts_policies
    /\ now = 0
    /\ stored_at = EmptyMap

SaslIdle ==
    /\ mechanism = "Plain"
    /\ username = ""
    /\ password = None
    /\ client_nonce = None
    /\ server_nonce = None
    /\ salt = None
    /\ iterations = None
    /\ state = "Initial"

\* the handler's fields after a call
SetHandler(self) ==
    /\ version' = self.version
    /\ available_caps' = self.available_caps
    /\ requested_caps' = self.requested_caps
    /\ enabled_caps' = self.enabled_caps
    /\ negotiation_complete' = self.negotiation_complete
    /\ sts_policies' = self.sts_policies

\* the SaslAuth's fields after a call
SetAuth(self) ==
    /\ mechanism' = self.mechanism
    /\ username' = self.username
    /\ password' = self.password
    /\ client_nonce' = self.client_nonce
    /\ server_nonce' = self.server_nonce
    /\ salt' = self.salt
    /\ iterations' = self.iterations
    /\ state' = self.state

-----------------------------------------------------------------------------
(* Capability negotiation: the server's CAP notifications in any order *)

Versions == {301, 302}

\* capability lists: valued and valueless names, an essential and a critical
\* name, and an invalid name between valid ones
CapStrings ==
    {"", "sasl", "sasl=PLAIN", "batch", "sasl=PLAIN batch", "batch -bad sasl", "-bad"}

LsParams ==
    {<<>>, <<"*">>}
    \cup {<<"*", s>> : s \in CapStrings}
    \cup {<<"*", "*", s>> : s \in CapStrings}
    \cup {<<"*", "LS", s>> : s \in CapStrings}

AckParams == {<<"sasl">>, <<"sasl batch">>, <<"LS", "zz">>}

NakParams == {<<"sasl">>, <<"batch">>, <<"sts">>, <<"batch", "sasl">>, <<"sasl batch">>}

DelParams == {<<"sasl">>, <<"batch", "LS">>, <<"zz">>}

CapCall(op, args, r) ==
    /\ SetHandler(r.self)
    /\ call' = Call(op, args)
    /\ result' = r.ret
    /\ UNCHANGED <<tagVars, codecVars, saslVars, now, stored_at>>

SetVersion ==
    \E v \in Versions : CapCall("set_version", <<v>>, set_version(Handler, v))

HandleCapLs ==
    \E params \in LsParams :
        CapCall("handle_cap_ls", <<params>>, handle_cap_ls(Handler, params))

HandleCapAck ==
    \E caps \in AckParams :
        CapCall("handle_cap_ack", <<caps>>, handle_cap_ack(Handler, caps))

HandleCapNak ==
    \E caps \in NakParams :
        CapCall("handle_cap_nak", <<caps>>, handle_cap_nak(Handler, caps))

HandleCapNew ==
    \E caps_str \in CapStrings :
        CapCall("handle_cap_new", <<caps_str>>, handle_cap_new(Handler, caps_str))

HandleCapDel ==
    \E caps \in DelParams :
        CapCall("handle_cap_del", <<caps>>, handle_cap_del(Handler, caps))

SetNegotiationComplete ==
    CapCall("set_negotiation_complete", <<>>, set_negotiation_complete(Handler))

CapNext ==
    \/ SetVersion
    \/ HandleCapLs
    \/ HandleCapAck
    \/ HandleCapNak
    \/ HandleCapNew
    \/ HandleCapDel
    \/ SetNegotiationComplete

InitCap == TagIdle /\ CodecIdle /\ CapInit /\ StsInit /\ SaslIdle /\ CallInit

SpecCap == InitCap /\ [][CapNext]_vars

-----------------------------------------------------------------------------
(* Roles: the questions asked of a role and of a user's admin context *)

RoleCall(op, args, ret) ==
    /\ call' = Call(op, args)
    /\ result' = Ok(ret)
    /\ UNCHANGED <<tagVars, codecVars, capVars, stsVars, saslVars>>

HierarchyLevel ==
    \E role \in MemberRole :
        RoleCall("hierarchy_level", <<role>>, hierarchy_level(role))

CanManageRole ==
    \E role \in MemberRole, target_role \in MemberRole :
        RoleCall("can_manage_role", <<role, target_role>>,
                 can_manage_role(role, target_role))

CanManageUserRole ==
    \E user_role \in MemberRole, target_role \in MemberRole :
        RoleCall("can_manage_user_role", <<user_role, target_role>>,
                 can_manage_user_role(user_role, target_role))

RoleNext ==
    \/ HierarchyLevel
    \/ CanManageRole
    \/ CanManageUserRole

SpecRole == InitCap /\ [][RoleNext]_vars

-----------------------------------------------------------------------------
(* What to request: capabilities are advertised and the handler is asked   *)
(* which of them to request                                                *)

RequestAdverts ==
    {"sasl", "sasl=", "sasl=PLAIN", "sasl=plain", "sasl=PLAINX", "sasl=FOO",
     "sasl=FOO,EXTERNAL", "sasl=SCRAM-SHA-256,BAR", "sasl=,", "message-tags", "batch",
     "+draft/reply batch", "away-notify"}

AdvertiseCaps ==
    \E s \in RequestAdverts :
        CapCall("handle_cap_ls", <<(<<"*", s>>)>>, handle_cap_ls(Handler, <<"*", s>>))

GetCapabilitiesToRequest ==
    CapCall("get_capabilities_to_request", <<>>,
            Return(Handler, Ok(get_capabilities_to_request(Handler))))

RequestNext ==
    \/ AdvertiseCaps
    \/ GetCapabilitiesToRequest

SpecRequest == InitCap /\ [][RequestNext]_vars

-----------------------------------------------------------------------------
(* The STS policy cache under a running clock *)

\* the clock runs from 0 to MaxNow seconds
MaxNow == 3

Hostnames == {"a.example", "b.example"}

StsValues ==
    {"duration=1", "duration=2,port=7000", "duration=2,preload", "duration=0",
     "port=7000", "duration=x", "duration=1,port=65536",
     "duration=18446744073709551615", "duration=18446744073709551616"}

StsCall(hostname, cap_value, r) ==
    /\ SetHandler(r.self)
    /\ call' = Call("handle_sts_policy", <<hostname, cap_value>>)
    /\ result' = r.ret
    /\ stored_at' =
          IF ~IsOk(r.ret) THEN stored_at
          ELSE IF hostname \in DOMAIN r.self.sts_policies
               THEN MapInsert(stored_at, hostname, now)
               ELSE MapRemove(stored_at, hostname)
    /\ UNCHANGED <<tagVars, codecVars, saslVars, now>>

HandleStsPolicy ==
    \E hostname \in Hostnames, cap_value \in StsValues :
        StsCall(hostname, cap_value,
                handle_sts_policy(Handler, hostname, cap_value, now))

\* should_upgrade_to_tls dropping the policy it finds expired
ShouldUpgradeToTls_evicting ==
    \E hostname \in Hostnames :
        /\ call' = Call("should_upgrade_to_tls", <<hostname>>)
        /\ result' = Ok(should_upgrade_to_tls(Handler, hostname, now))
        /\ sts_policies' =
              IF should_upgrade_to_tls(Handler, hostname, now) = None
              THEN MapRemove(sts_policies, hostname) ELSE sts_policies
        /\ UNCHANGED <<tagVars, codecVars, capVars, now, stored_at, saslVars>>

ShouldUpgradeToTls ==
    \E hostname \in Hostnames :
        /\ call' = Call("should_upgrade_to_tls", <<hostname>>)
        /\ result' = Ok(should_upgrade_to_tls(Handler, hostname, now))
        /\ UNCHANGED <<tagVars, codecVars, capVars, stsVars, saslVars>>

\* a second passes
Tick ==
    /\ now < MaxNow
    /\ now' = now + 1
    /\ UNCHANGED <<tagVars, codecVars, capVars, sts_policies, stored_at, saslVars,
                   callVars>>

StsNext ==
    \/ HandleStsPolicy
    \/ ShouldUpgradeToTls
    \/ Tick

InitSts == TagIdle /\ CodecIdle /\ CapInit /\ StsInit /\ SaslIdle /\ CallInit

SpecSts == InitSts /\ [][StsNext]_vars

-----------------------------------------------------------------------------
(* Negotiation and the STS cache together: the CAP notifications, the end   *)
(* of negotiation and the STS operations in any order, the clock standing   *)

BriefLsParams == {<<"*", "sasl=PLAIN batch">>, <<"*", "*", "batch">>, <<"*", "-bad">>}

BriefStsValues == {"duration=1", "duration=0", "duration=x"}

HandleCapLsBriefly ==
    \E params \in BriefLsParams :
        CapCall("handle_cap_ls", <<params>>, handle_cap_ls(Handler, params))

HandleStsPolicyBriefly ==
    \E cap_value \in BriefStsValues :
        StsCall("a.example", cap_value,
                handle_sts_policy(Handler, "a.example", cap_value, now))

NegotiationNext ==
    \/ SetVersion
    \/ HandleCapLsBriefly
    \/ HandleCapAck
    \/ HandleCapNak
    \/ HandleCapNew
    \/ HandleCapDel
    \/ SetNegotiationComplete
    \/ HandleStsPolicyBriefly
    \/ ShouldUpgradeToTls

SpecNegotiation == InitCap /\ [][NegotiationNext]_vars

-----------------------------------------------------------------------------
(* The queries of the handler.  Three compositions: the sasl capability as  *)
(* it is advertised, acknowledged, deleted and read; every query over the   *)
(* handler and its STS cache under the running clock; and the whole public  *)
(* interface, the clock standing                                            *)

\* capability lists whose sasl value changes from one line to the next, with
\* an invalid name between valid ones
MechanismAdverts ==
    {"sasl=PLAIN,EXTERNAL batch", "sasl", "sasl=", "sasl=SCRAM-SHA-256,,PLAIN",
     "batch=x -bad sasl=EXTERNAL"}

QueriedNames == {"sasl", "batch", "zz"}

AdvertiseMechanisms ==
    \E s \in MechanismAdverts :
        CapCall("handle_cap_ls", <<(<<"*", s>>)>>, handle_cap_ls(Handler, <<"*", s>>))

AnnounceMechanisms ==
    \E s \in MechanismAdverts :
        CapCall("handle_cap_new", <<s>>, handle_cap_new(Handler, s))

GetEssentialCapabilities ==
    CapCall("get_essential_capabilities", <<>>,
            Return(Handler, Ok(get_essential_capabilities)))

IsCapabilityEnabled ==
    \E cap_name \in QueriedNames :
        CapCall("is_capability_enabled", <<cap_name>>,
                Return(Handler, Ok(is_capability_enabled(Handler, cap_name))))

GetSaslMechanisms ==
    CapCall("get_sasl_mechanisms", <<>>,
            Return(Handler, Ok(get_sasl_mechanisms(Handler))))

IsNegotiationComplete ==
    CapCall("is_negotiation_complete", <<>>,
            Return(Handler, Ok(is_negotiation_complete(Handler))))

AdvertNext ==
    \/ AdvertiseMechanisms
    \/ AnnounceMechanisms
    \/ HandleCapAck
    \/ HandleCapDel
    \/ GetSaslMechanisms

SpecAdvert == InitCap /\ [][AdvertNext]_vars

QueryNext ==
    \/ HandleCapLsBriefly
    \/ HandleCapAck
    \/ SetNegotiationComplete
    \/ HandleStsPolicyBriefly
    \/ Tick
    \/ GetEssentialCapabilities
    \/ GetCapabilitiesToRequest
    \/ IsCapabilityEnabled
    \/ GetSaslMechanisms
    \/ IsNegotiationComplete
    \/ ShouldUpgradeToTls

SpecQuery == InitCap /\ [][QueryNext]_vars

InterfaceNext ==
    \/ SetVersion
    \/ HandleCapLsBriefly
    \/ HandleCapAck
    \/ HandleCapNak
    \/ HandleCapNew
    \/ HandleCapDel
    \/ SetNegotiationComplete
    \/ HandleStsPolicyBriefly
    \/ GetEssentialCapabilities
    \/ GetCapabilitiesToRequest
    \/ IsCapabilityEnabled
    \/ GetSaslMechanisms
    \/ IsNegotiationComplete
    \/ ShouldUpgradeToTls

SpecInterface == InitCap /\ [][InterfaceNext]_vars

-----------------------------------------------------------------------------
(* SASL: one SaslAuth and the calls its owner makes, in any order *)

Mechanisms == {"Plain", "External", "ScramSha256"}

\* the client nonces the random generator may yield
Nonces == {"nA", "nB"}

ChallengeTexts ==
    {"", "r=nAsrv,s=b64(salt),i=4096", "r=nBsrv,s=b64(salt),i=1",
     "r=other,s=b64(salt),i=4096", "r=nAsrv,s=salt,i=4096", "r=nAsrv,s=b64(salt),i=x",
     "r=nAsrv,s=b64(salt)", "v=b64(sig)", "r=nAsrv,s=b64(salt),i=4096,v=b64(sig)",
     "r=nAsrv,?", "i=+5,s=b64(),r=nA", "r=nAsrv,r=nAsrv2,s=b64(salt),i=1",
     "r=nAsrv,r=other,s=b64(salt),i=1", "r=nAsrv,s=b64(salt),i=4294967296",
     "s=b64(salt),i=1", "r=nAsrv,i=1", "xr=nAsrv,s=b64(salt),i=1"}

Challenges == {"", "r=nAsrv"} \cup {BASE64_encode(t) : t \in ChallengeTexts}

\* SaslAuth::new(mechanism, "user", password)
SaslInit ==
    /\ mechanism \in Mechanisms
    /\ username = "user"
    /\ password \in {None, Some("pw")}
    /\ client_nonce = NewAuth(mechanism, username, password).client_nonce
    /\ server_nonce = NewAuth(mechanism, username, password).server_nonce
    /\ salt = NewAuth(mechanism, username, password).salt
    /\ iterations = NewAuth(mechanism, username, password).iterations
    /\ state = NewAuth(mechanism, username, password).state

SaslCall(op, args, r) ==
    /\ SetAuth(r.self)
    /\ call' = Call(op, args)
    /\ result' = r.ret
    /\ UNCHANGED <<tagVars, codecVars, capVars, stsVars>>

GenerateInitialResponse ==
    \E nonce \in Nonces :
        SaslCall("generate_initial_response", <<>>,
                 generate_initial_response(Auth, nonce))

ProcessChallenge ==
    \E challenge \in Challenges :
        SaslCall("process_challenge", <<challenge>>, process_challenge(Auth, challenge))

MarkSuccess == SaslCall("mark_success", <<>>, mark_success(Auth))

MarkFailed == SaslCall("mark_failed", <<>>, mark_failed(Auth))

SaslNext ==
    \/ GenerateInitialResponse
    \/ ProcessChallenge
    \/ MarkSuccess
    \/ MarkFailed

InitSasl == TagIdle /\ CodecIdle /\ CapInit /\ StsInit /\ SaslInit /\ CallInit

SpecSasl == InitSasl /\ [][SaslNext]_vars

-----------------------------------------------------------------------------
(* The initial response: a SaslAuth of any mechanism, username and          *)
(* password, asked for its initial response before and after the marks      *)

Usernames == {"", "user", "a b"}

Passwords == {None, Some(""), Some("pw")}

\* SaslAuth::new(mechanism, username, password)
ResponseInit ==
    /\ mechanism \in Mechanisms
    /\ username \in Usernames
    /\ password \in Passwords
    /\ client_nonce = NewAuth(mechanism, username, password).client_nonce
    /\ server_nonce = NewAuth(mechanism, username, password).server_nonce
    /\ salt = NewAuth(mechanism, username, password).salt
    /\ iterations = NewAuth(mechanism, username, password).iterations
    /\ state = NewAuth(mechanism, username, password).state

ResponseNext ==
    \/ GenerateInitialResponse
    \/ MarkSuccess
    \/ MarkFailed

InitResponse == TagIdle /\ CodecIdle /\ CapInit /\ StsInit /\ ResponseInit /\ CallInit

SpecResponse == InitResponse /\ [][ResponseNext]_vars

-----------------------------------------------------------------------------
(* The choice of a mechanism among those a server lists *)

\* the longest list of mechanism names that is tried
MaxMechanisms == 3

MechanismNames == {"PLAIN", "EXTERNAL", "SCRAM-SHA-256", "plain", "GSSAPI"}

\* the lists of at most n mechanism names
MechanismLists(n) == UNION {[1..k -> MechanismNames] : k \in 0..n}

\* the function has no state: one call is made, on any list
ChooseBestMechanism ==
    \E available \in MechanismLists(MaxMechanisms), tls_enabled \in BOOLEAN :
        /\ call.op = "new"
        /\ call' = Call("choose_best_mechanism", <<available, tls_enabled>>)
        /\ result' = Ok(choose_best_mechanism(available, tls_enabled))
        /\ UNCHANGED <<tagVars, codecVars, capVars, stsVars, saslVars>>

MechNext == ChooseBestMechanism

SpecMech == InitCap /\ [][MechNext]_vars

-----------------------------------------------------------------------------
(* The pure conversions of the codec *)

TagNext ==
    \/ EscapeTag /\ UNCHANGED <<codecVars, capVars, stsVars, saslVars, callVars>>
    \/ UnescapeTag /\ UNCHANGED <<codecVars, capVars, stsVars, saslVars, callVars>>

InitTag == TagInit /\ CodecIdle /\ CapInit /\ StsInit /\ SaslIdle /\ CallInit

SpecTag == InitTag /\ [][TagNext]_vars

CodecNext ==
    \/ Serialize /\ UNCHANGED <<tagVars, capVars, stsVars, saslVars, callVars>>
    \/ Parse /\ UNCHANGED <<tagVars, capVars, stsVars, saslVars, callVars>>
    \/ Reserialize /\ UNCHANGED <<tagVars, capVars, stsVars, saslVars, callVars>>

InitCodec == TagIdle /\ CodecInit /\ CapInit /\ StsInit /\ SaslIdle /\ CallInit

SpecCodec == InitCodec /\ [][CodecNext]_vars

-----------------------------------------------------------------------------
(* Messages as a caller may build them, serialized *)

\* the longest parameter list that is serialized
MaxSerializedParams == 2

SerializedParams == {"a", "", " ", ":", "a b", ":a", "a:"}

\* the lists of at most n parameters, a space or a leading colon in any place
SerializedParamLists(n) == UNION {[1..k -> SerializedParams] : k \in 0..n}

\* a Message has been built, with_params being given any list
InitSerialize ==
    /\ TagIdle /\ CapInit /\ StsInit /\ SaslIdle /\ CallInit
    /\ \/ \E ps \in SerializedParamLists(MaxSerializedParams) :
             \/ message = IrcMessage(EmptyMap, None, "PING", ps)
             \/ message = IrcMessage(MapInsert(EmptyMap, "t", Some("v")), Some("n"), "001", ps)
       \/ message = IrcMessage(EmptyMap, None, "PRIVMSG", <<"#channel", "Hello world">>)
    /\ line = ""
    /\ parsed = Err("")
    /\ line2 = ""
    /\ codec_pc = "built"

SerializeNext == Serialize /\ UNCHANGED <<tagVars, capVars, stsVars, saslVars, callVars>>

SpecSerialize == InitSerialize /\ [][SerializeNext]_vars

-----------------------------------------------------------------------------
(* Lines as they come from the wire, parsed *)

\* the largest number of parameter tokens of the enumerated lines
MaxTokens == 3

ParamTokens == {"a", ":", ":b", "", "c:"}

\* the lists of at most n parameter tokens
TokenLists(n) == UNION {[1..k -> ParamTokens] : k \in 0..n}

\* str::repeat
RECURSIVE Repeat(_, _)
Repeat(s, n) ==
    IF n = 0 THEN ""
    ELSE IF n % 2 = 0 THEN LET half == Repeat(s, n \div 2) IN half \o half
    ELSE s \o Repeat(s, n - 1)

\* a command followed by every list of at most n tokens
ShortLines(n) == {Join(<<"PING">> \o tokens, " ") : tokens \in TokenLists(n)}

\* lines with tags, a prefix and a line end, and lines that are refused
FramedLines ==
    {"PRIVMSG #chan :hello world", "PRIVMSG #chan :hello world\r\n",
     ":nick PING :a b", "@t=v :nick PING x :a  b", "@t PING :a b c", "ping a :",
     "GET / HTTP", ":nick", "@t", "", "@=v PING"}

\* a character outside ASCII (one character here, two bytes in UTF-8)
NON_ASCII == "é"

\* lines whose command is a word, a number, a foreign-protocol verb, empty,
\* of mixed or other characters, or 32 and 33 letters long
CommandLines ==
    {"privmsg #chan hi", "001 nick :Welcome", "01 a", "0012", "1a2", "a1 x",
     "PRIV-MSG a", "get /", "Post", "rename a b", "auth", "AUTHENTICATE +",
     "@t=v :nick delete", " PING", ":nick  PING", "PING" \o NON_ASCII,
     Repeat("a", 32), Repeat("a", 33) \o " x", ":n " \o Repeat("Z", 32) \o " :x y"}

\* 8 tags without a value, each after a semicolon
ManyTags == ";b;c;d;e;f;g;h;i"

\* lines at and beyond the limits of validate_security and of the tag
\* section, and lines with characters no param or prefix may hold
LimitLines ==
    {"PING " \o Repeat("a", 512), "PING " \o Repeat("a", 513),
     "PING " \o Repeat("a", 300) \o " " \o Repeat("a", 300),
     "PING a :" \o Repeat("a ", 256), "PING a :" \o Repeat("a ", 256) \o "a",
     "CAP * LS :" \o Repeat("a", 4096), "CAP * LS :" \o Repeat("a", 4097),
     "cap " \o Repeat("a", 513),
     ":" \o Repeat("n", 255) \o " PING", ":" \o Repeat("n", 256) \o " PING",
     ":n" \o NUL \o "k PING", ":n" \o NON_ASCII \o " PING x",
     "@" \o Repeat("k", 64) \o " PING", "@" \o Repeat("k", 65) \o " PING",
     "@k!=v PING", "@a;=v;b PING", "@k=" \o NON_ASCII \o ";+v/k-1._x= PING",
     "@a=" \o Repeat("v", 8188) \o " PING", "@a=" \o Repeat("v", 8189) \o " PING",
     "@a=" \o Repeat("v", 8164) \o ManyTags \o " PING",
     "@a=" \o Repeat("v", 8165) \o ManyTags \o " PING",
     "@a=x;a=" \o Repeat("\\s", 10) \o Repeat("v", 8150) \o ";b PING",
     "PING a" \o NON_ASCII, "PING a" \o NUL \o "b", "PING a\rb", "PING a\nb\r\n",
     "PING :a b" \o NUL, "PING x\ty"}

\* lines with 11 to 15 parameter tokens before a trailing parameter
LongLines ==
    {Join(<<"PING">> \o [i \in 1..k |-> "a"] \o <<":x", "y">>, " ") : k \in 11..15}

\* lines of more than MAX_MESSAGE_LENGTH + MAX_TAG_LENGTH bytes
OversizeLines ==
    {"PING " \o Repeat("a", 8699), "PING " \o Repeat("a", 9000),
     "@" \o Repeat("a", 8703), ":" \o Repeat("a", 8703), Repeat(" ", 8704),
     "GET " \o Repeat("a", 8700), "PING :a" \o Repeat("\r\n", 4349),
     "PING " \o Repeat(NUL, 8699)}

\* a line has been received
InitParse ==
    /\ TagIdle /\ CapInit /\ StsInit /\ SaslIdle /\ CallInit
    /\ message = IrcMessage(EmptyMap, None, "", <<>>)
    /\ line \in ShortLines(MaxTokens) \cup FramedLines \cup CommandLines
                \cup LimitLines                \cup LongLines \cup OversizeLines
    /\ parsed = Err("")
    /\ line2 = ""
    /\ codec_pc = "serialized"

ParseNext == Parse /\ UNCHANGED <<tagVars, capVars, stsVars, saslVars, callVars>>

SpecParse == InitParse /\ [][ParseNext]_vars

-----------------------------------------------------------------------------
(* Properties *)

\* C1 (as stated): for every Message whose params and tags are ASCII without
\* NUL, CR, LF, parsing its serialization succeeds and serializing the parsed
\* Message gives the same line again.
RoundTrip ==
    /\ codec_pc = "parsed" => IsOk(parsed)
    /\ codec_pc = "reserialized" => line2 = line

\* C2 (as stated): unescape_tag_value(escape_tag_value(v)) = v for every tag
\* value v.
EscapeUnescapeInverse == tag_pc = "unescaped" => tag_unescaped = tag_value

\* C3: in every state reachable by LS, ACK, NAK, NEW and DEL calls, successful
\* or failing, every name in enabled_caps is a name in available_caps.
EnabledSubsetOfAvailable == DOMAIN enabled_caps \subseteq DOMAIN available_caps

\* a DEL has run and left a capability enabled beside one that is only available
EnabledSubsetWitness ==
    /\ call.op = "handle_cap_del"
    /\ DOMAIN enabled_caps # {}
    /\ DOMAIN enabled_caps # DOMAIN available_caps

\* the step TerminalStatesNeverLeft asks of every transition
TerminalStep ==
    (state \in {"Success", "Failed"}) => (state' = state)

\* C4 (as stated): once the state is Success or Failed, no later call changes
\* it.
TerminalStatesNeverLeft == [][TerminalStep]_vars

\* the step TerminalStatesLeftOnlyExplicitly asks of every transition
ExplicitStep ==
    state \in {"Success", "Failed"} =>
       /\ call'.op = "process_challenge" => state' = state
       /\ (call'.op = "generate_initial_response" /\ mechanism # "ScramSha256")
             => state' = state
       /\ state' # state =>
             \/ call'.op = "mark_success" /\ state' = "Success"
             \/ call'.op = "mark_failed" /\ state' = "Failed"
             \/ /\ call'.op = "generate_initial_response"
                /\ mechanism = "ScramSha256"
                /\ state' = "Authenticating"

\* C4 (amended): in Success or Failed, process_challenge and, for Plain and
\* External, generate_initial_response leave the state as it is; the state
\* changes only by mark_success (to Success), mark_failed (to Failed) and
\* generate_initial_response for ScramSha256 (to Authenticating).
TerminalStatesLeftOnlyExplicitly == [][ExplicitStep]_vars

\* a challenge was answered after mark_success, and the state is still Success
TerminalStatesWitness ==
    /\ state = "Success"
    /\ call.op = "process_challenge"
    /\ IsOk(result)

\* the step OnlyMarksReachSuccessOrFailed asks of every transition
MarkStep ==
    /\ call'.op \in {"generate_initial_response", "process_challenge"}
         => (state' \in {"Success", "Failed"} => state' = state)
    /\ (state' \in {"Success", "Failed"} /\ state' # state)
         => call'.op \in {"mark_success", "mark_failed"}

\* C5: generate_initial_response and process_challenge never put the SaslAuth
\* into Success or Failed, whatever the mechanism and the challenge; only
\* mark_success and mark_failed do.
OnlyMarksReachSuccessOrFailed == [][MarkStep]_vars

\* a server message carrying v= was answered and the state is Authenticating
OnlyMarksWitness ==
    /\ call.op = "process_challenge"
    /\ Contains(call.args[1], "v=")
    /\ IsOk(result)
    /\ state = "Authenticating"

\* the step NakRejectsCriticalOnly asks of every transition
NakStep ==
    call'.op = "handle_cap_nak" =>
       LET caps == call'.args[1]
       IN /\ SeqContains(caps, "sasl")
               => (result'.kind = "Err" /\ result'.err = "SecurityViolation")
          /\ ~SeqContains(caps, "sasl")
               => /\ result'.kind = "Ok"
                  /\ \A i \in 1..Len(caps) : ~SeqContains(requested_caps', caps[i])
          /\ available_caps' = available_caps
          /\ enabled_caps' = enabled_caps

\* C6: handle_cap_nak with a rejected name "sasl" fails with SecurityViolation;
\* without one (as for "batch") it returns Ok and no rejected name is in
\* requested_caps afterwards; available_caps and enabled_caps are unchanged.
NakRejectsCriticalOnly == [][NakStep]_vars

\* "batch" was rejected while a capability was enabled
NakWitness ==
    /\ call = Call("handle_cap_nak", <<(<<"batch">>)>>)
    /\ result.kind = "Ok"
    /\ DOMAIN enabled_caps # {}

\* C7 (as stated): no call panics; every call returns Ok or an explicit error.
NoPanic == result.kind \in {"Ok", "Err"}

\* C8: while the policy stored for h at time t with duration d > 0 stands,
\* should_upgrade_to_tls(h) is the policy's port (6697 without one) at every
\* time now < t + d and None at every time now >= t + d.
StsExpiry ==
    \A h \in DOMAIN sts_policies :
        LET policy == sts_policies[h]
            in_force == BigLt(BigOf(now), BigAdd(BigOf(stored_at[h]), policy.duration))
        IN /\ BigLt(BigOf(0), policy.duration)
           /\ should_upgrade_to_tls(Handler, h, now) =
                 IF in_force
                 THEN (IF IsSome(policy.port) THEN policy.port
                       ELSE Some(6697))
                 ELSE None

\* a policy has run out and the question was asked
StsExpiryWitness ==
    \E h \in DOMAIN sts_policies :
        /\ call = Call("should_upgrade_to_tls", <<h>>)
        /\ result = Ok(None)
        /\ ~BigLt(BigOf(now), BigAdd(BigOf(stored_at[h]), sts_policies[h].duration))

\* what each well-formed value of StsValues states
StsAttributes ==
    [v \in {"duration=1", "duration=2,port=7000", "duration=2,preload", "duration=0",
            "duration=18446744073709551615"} |->
        CASE v = "duration=1" -> StsPolicy(BigOf(1), None, FALSE, <<>>)
          [] v = "duration=2,port=7000" -> StsPolicy(BigOf(2), Some(7000), FALSE, <<>>)
          [] v = "duration=2,preload" -> StsPolicy(BigOf(2), None, TRUE, <<>>)
          [] v = "duration=0" -> StsPolicy(BigOf(0), None, FALSE, <<>>)
          [] v = "duration=18446744073709551615" -> StsPolicy(U64_MAX, None, FALSE, <<>>)]

\* the step StsRevocationAndReplacement asks of every transition
StsPolicyStep ==
    (call'.op = "handle_sts_policy" /\ call'.args[2] \in DOMAIN StsAttributes) =>
       LET h == call'.args[1]
           stated == StsAttributes[call'.args[2]]
       IN /\ stated.duration = BigOf(0) =>
               /\ result'.kind = "Ok"
               /\ h \notin DOMAIN sts_policies'
               /\ should_upgrade_to_tls([sts_policies |-> sts_policies'], h, now') = None
          /\ stated.duration # BigOf(0) =>
               /\ h \in DOMAIN sts_policies'
               /\ sts_policies'[h].duration = stated.duration
               /\ sts_policies'[h].port = stated.port
               /\ sts_policies'[h].preload = stated.preload
          /\ \A g \in Hostnames \ {h} :
               /\ g \in DOMAIN sts_policies' <=> g \in DOMAIN sts_policies
               /\ g \in DOMAIN sts_policies => sts_policies'[g] = sts_policies[g]

\* C9 (as stated): handle_sts_policy(h, v) with duration 0 returns Ok and
\* removes the policy of h, so that should_upgrade_to_tls(h) is None; with a
\* duration > 0 it replaces the policy of h as a whole (duration, port and
\* preload are those of v); the policies of other hostnames are unchanged.
StsRevocationAndReplacement == [][StsPolicyStep]_vars

\* what a handle_cap_ls call with at least 2 params leaves behind, listed being
\* the outcome of parsing the list it chose
CapLsOutcome(continuation, listed) ==
    /\ available_caps' = listed.self.available_caps
    /\ UNCHANGED <<version, requested_caps, enabled_caps, negotiation_complete,
                   sts_policies>>
    /\ IF IsOk(listed.ret)
       THEN result'.kind = "Ok" /\ result'.val = ~continuation
       ELSE result'.kind = "Err" /\ result'.err = listed.ret.err

\* the step CapLsContinuation asks of every transition
CapLsStep ==
    call'.op = "handle_cap_ls" =>
       LET params == call'.args[1]
           continuation == Len(params) > 2 /\ params[2] = "*"
       IN IF Len(params) < 2
          THEN /\ result'.kind = "Err" /\ result'.err = "Parse"
               /\ UNCHANGED <<capVars, sts_policies>>
          ELSE CapLsOutcome(continuation,
                            parse_capabilities(
                                Handler, IF continuation THEN params[3] ELSE params[2]))

ListedNames(caps_str) ==
    LET items == SplitWhitespace(caps_str)
    IN {Split(items[i], "=")[1] : i \in 1..Len(items)}

\* the step LsWithSubcommand asks of every transition
LsWithSubcommandStep ==
    (/\ call'.op = "handle_cap_ls"
     /\ Len(call'.args[1]) = 3
     /\ call'.args[1][2] = "LS"
     /\ \A n \in ListedNames(call'.args[1][3]) : is_valid_capability_name(n))
    => /\ result'.kind = "Ok"
       /\ result'.val = FALSE
       /\ ListedNames(call'.args[1][3]) \subseteq DOMAIN available_caps'

\* C11 (as stated): for params [target, "LS", capability-list] handle_cap_ls
\* returns false and afterwards every capability named in the third element
\* is in available_caps.
LsWithSubcommand == [][LsWithSubcommandStep]_vars

\* a name of the essential list
IsEssential(name) == SeqContains(get_essential_capabilities, name)

\* the names of a capability list in the order listed, values stripped
ListedNameSeq(caps_str) ==
    LET items == SplitWhitespace(caps_str)
    IN [i \in 1..Len(items) |-> Split(items[i], "=")[1]]

\* what a handle_cap_new call at version >= 302 leaves behind, listed being
\* the outcome of handle_cap_ls for the same list
CapNewOutcome(caps_str, listed) ==
    /\ available_caps' = listed.self.available_caps
    /\ enabled_caps' = enabled_caps
    /\ IF IsOk(listed.ret)
       THEN /\ result'.kind = "Ok"
            /\ result'.val = SelectSeq(ListedNameSeq(caps_str), IsEssential)
       ELSE result'.kind = "Err" /\ result'.err = listed.ret.err

\* the step CapNewVersionGated asks of every transition
CapNewStep ==
    call'.op = "handle_cap_new" =>
       IF version < 302
       THEN /\ result'.kind = "Ok" /\ result'.val = <<>>
            /\ available_caps' = available_caps
            /\ enabled_caps' = enabled_caps
       ELSE CapNewOutcome(call'.args[1],
                          handle_cap_ls(Handler, <<"*", call'.args[1]>>))

\* C12: with version < 302 handle_cap_new returns an empty list and leaves
\* available_caps and enabled_caps unchanged; with version >= 302 it inserts
\* the listed capabilities into available_caps as LS does and returns exactly
\* the listed names, values stripped, that are in the essential list (or, for
\* a list with an invalid name, the error LS returns).
CapNewVersionGated == [][CapNewStep]_vars

\* a NEW at version 302 advertised sasl with a value and batch, and both names
\* came back
CapNewWitness ==
    /\ call = Call("handle_cap_new", <<"sasl=PLAIN batch">>)
    /\ version = 302
    /\ result.kind = "Ok"
    /\ result.val = <<"sasl", "batch">>
    /\ available_caps["sasl"].value = Some("PLAIN")

\* the names of a parameter list
NameSet(caps) == {caps[i] : i \in 1..Len(caps)}

\* the step CapDelVersionGated asks of every transition
CapDelGatedStep ==
    (call'.op = "handle_cap_del" /\ version < 302)
    => (available_caps' = available_caps /\ enabled_caps' = enabled_caps)

\* C13 (as stated): when the handler's version is below 302, handle_cap_del
\* leaves available_caps and enabled_caps unchanged.
CapDelVersionGated == [][CapDelGatedStep]_vars

\* a map after the removal of names: the names are gone, every other entry is
\* as it was
Without(after, before, names) ==
    /\ DOMAIN after = DOMAIN before \ names
    /\ \A n \in DOMAIN after : after[n] = before[n]

\* the step CapDelRemoves asks of every transition
CapDelStep ==
    /\ (call'.op = "handle_cap_del" /\ version >= 302)
         => /\ result'.kind = "Ok"
            /\ Without(available_caps', available_caps, NameSet(call'.args[1]))
            /\ Without(enabled_caps', enabled_caps, NameSet(call'.args[1]))
            /\ \A n \in NameSet(call'.args[1]) :
                  ~is_capability_enabled([enabled_caps |-> enabled_caps'], n)
    /\ \A n \in DOMAIN available_caps' \ DOMAIN available_caps :
          call'.op \in {"handle_cap_ls", "handle_cap_new"}
    /\ \A n \in DOMAIN enabled_caps' \ DOMAIN enabled_caps :
          call'.op = "handle_cap_ack" /\ n \in DOMAIN available_caps

\* C14: after handle_cap_del(caps) at version >= 302 no name of caps is in
\* available_caps or enabled_caps, every other entry of both maps is unchanged
\* and the call returns Ok, absent names included; a name that is not enabled
\* becomes enabled only by an ACK while it is in available_caps, and a name
\* enters available_caps only by LS or NEW.
CapDelRemoves == [][CapDelStep]_vars

\* a DEL of "sasl" has run at version 302: "sasl" is neither available nor
\* enabled, "batch" is still both
CapDelWitness ==
    /\ call = Call("handle_cap_del", <<(<<"sasl">>)>>)
    /\ version = 302
    /\ result.kind = "Ok"
    /\ "batch" \in DOMAIN enabled_caps
    /\ "batch" \in DOMAIN available_caps
    /\ "sasl" \notin DOMAIN available_caps
    /\ ~is_capability_enabled(Handler, "sasl")

\* the names an ACK acknowledges: the whitespace-separated words of all its
\* parameters
AcknowledgedNames(caps) ==
    UNION {NameSet(SplitWhitespace(caps[i])) : i \in 1..Len(caps)}

\* the step AckEnablesAvailable asks of every transition
CapAckStep ==
    call'.op = "handle_cap_ack" =>
       LET acked == AcknowledgedNames(call'.args[1]) \cap DOMAIN available_caps
       IN /\ result'.kind = "Ok"
          /\ available_caps' = available_caps
          /\ DOMAIN enabled_caps' = DOMAIN enabled_caps \cup acked
          /\ \A n \in acked :
                enabled_caps'[n] = [available_caps[n] EXCEPT !.enabled = TRUE]
          /\ \A n \in DOMAIN enabled_caps \ acked : enabled_caps'[n] = enabled_caps[n]

\* C15: handle_cap_ack splits each parameter on whitespace and copies each
\* resulting name that is in available_caps into enabled_caps with
\* enabled = true; names not in available_caps do not become enabled and cause
\* no error; available_caps is unchanged.
AckEnablesAvailable == [][CapAckStep]_vars

\* "sasl batch" was acknowledged while only sasl was available: sasl is
\* enabled with its value, batch is not
CapAckWitness ==
    /\ call = Call("handle_cap_ack", <<(<<"sasl batch">>)>>)
    /\ result.kind = "Ok"
    /\ DOMAIN available_caps = {"sasl"}
    /\ DOMAIN enabled_caps = {"sasl"}
    /\ enabled_caps["sasl"] = CapabilitySpec("sasl", Some("PLAIN"), TRUE)

\* the mechanisms the handler can use
SupportedMechanisms == {"SCRAM-SHA-256", "EXTERNAL", "PLAIN"}

\* a capability value that lists a supported mechanism as one of its
\* comma-separated items
ListsSupportedMechanism(value) ==
    NameSet(Split(value, ",")) \cap SupportedMechanisms # {}

\* the essential names that are available, in essential-list order, "sasl"
\* only if KeepSasl accepts its entry
EssentialAvailable(KeepSasl(_)) ==
    SelectSeq(get_essential_capabilities,
              LAMBDA n : /\ n \in DOMAIN available_caps
                         /\ n = "sasl" => KeepSasl(available_caps["sasl"]))

\* "sasl" is kept only for a value that lists a supported mechanism
SaslListsMechanism(cap) == IsSome(cap.value) /\ ListsSupportedMechanism(Unwrap(cap.value))

\* "sasl" is kept for a value that lists a supported mechanism, and when it
\* was advertised without a value
SaslListsMechanismOrBare(cap) ==
    IsSome(cap.value) => ListsSupportedMechanism(Unwrap(cap.value))

\* C16 (as stated): get_capabilities_to_request returns the essential names
\* that are in available_caps, in essential-list order, with "sasl" only if
\* its advertised value lists at least one of SCRAM-SHA-256, EXTERNAL, PLAIN as
\* an exactly matching comma-separated item.
RequestsSaslOnlyWithMechanism ==
    /\ get_capabilities_to_request(Handler) = EssentialAvailable(SaslListsMechanism)
    /\ call.op = "get_capabilities_to_request"
         => result.val = EssentialAvailable(SaslListsMechanism)

\* C16 (amended): as stated, except that "sasl" advertised without a value is
\* returned too; "sasl" is dropped only when it has a value that lists none of
\* the three mechanisms.
RequestsSaslUnlessUnsupported ==
    /\ get_capabilities_to_request(Handler) = EssentialAvailable(SaslListsMechanismOrBare)
    /\ call.op = "get_capabilities_to_request"
         => result.val = EssentialAvailable(SaslListsMechanismOrBare)

\* the handler was asked while sasl was advertised with an unsupported
\* mechanism only, beside batch and message-tags: sasl was dropped
RequestsWitness ==
    /\ call.op = "get_capabilities_to_request"
    /\ "sasl" \in DOMAIN available_caps
    /\ available_caps["sasl"].value = Some("plain")
    /\ result.val = <<"message-tags", "batch">>

\* the mechanism a name stands for, whatever its letter case
RecognizedAs(name) ==
    CASE ToUppercase(name) = "PLAIN" -> Some("Plain")
      [] ToUppercase(name) = "EXTERNAL" -> Some("External")
      [] ToUppercase(name) = "SCRAM-SHA-256" -> Some("ScramSha256")
      [] OTHER -> None

\* the mechanisms of a list that may be chosen: the recognized ones, Plain
\* only under TLS
Eligible(available, tls_enabled) ==
    {Unwrap(RecognizedAs(available[i])) :
        i \in {j \in 1..Len(available) : IsSome(RecognizedAs(available[j]))}}
    \ (IF tls_enabled THEN {} ELSE {"Plain"})

\* External above ScramSha256 above Plain
Strength(m) == CASE m = "External" -> 3 [] m = "ScramSha256" -> 2 [] m = "Plain" -> 1

\* the strongest of the eligible mechanisms, None if there is none
Strongest(eligible) ==
    IF eligible = {} THEN None
    ELSE Some(CHOOSE m \in eligible : \A o \in eligible : Strength(o) <= Strength(m))

\* the list in the opposite order
Reverse(seq) == [i \in 1..Len(seq) |-> seq[Len(seq) + 1 - i]]

\* C17: choose_best_mechanism returns the eligible mechanism of highest
\* strength (External 3 > ScramSha256 2 > Plain 1, Plain eligible only under
\* TLS), None exactly when no eligible mechanism is listed, never Plain
\* without TLS, and the same for the list in another order.
ChoosesStrongestEligible ==
    call.op = "choose_best_mechanism" =>
        /\ result.val = Strongest(Eligible(call.args[1], call.args[2]))
        /\ result.val = None <=> Eligible(call.args[1], call.args[2]) = {}
        /\ ~call.args[2] => result.val # Some("Plain")
        /\ choose_best_mechanism(Reverse(call.args[1]), call.args[2]) = result.val

\* PLAIN was listed before SCRAM-SHA-256 and there is no TLS: ScramSha256
ChoosesWitness ==
    /\ call = Call("choose_best_mechanism", <<(<<"PLAIN", "SCRAM-SHA-256">>), FALSE>>)
    /\ result = Ok(Some("ScramSha256"))

\* C18: parse rejects every line longer than 512 + 8191 = 8703 bytes with
\* SecurityViolation, whatever its content; no other error kind is returned
\* for an oversize line.
OversizeLineRejected ==
    (codec_pc = "parsed" /\ Len(line) > 512 + 8191)
    => (parsed.kind = "Err" /\ parsed.err = "SecurityViolation")

\* an oversize line that starts a tag section and has no space was refused as
\* a SecurityViolation
OversizeWitness ==
    /\ codec_pc = "parsed"
    /\ Len(line) = 8704
    /\ StartsWith(line, "@")
    /\ parsed = Err("SecurityViolation")

\* a line without its line end, its tag section and its prefix
CommandAndParams(text) ==
    LET body == TrimEndMatches(text, "\r\n")
        untagged == IF StartsWith(body, "@")
                    THEN From(body, Unwrap(Find(body, " ")) + 1) ELSE body
    IN IF StartsWith(untagged, ":")
       THEN From(untagged, Unwrap(Find(untagged, " ")) + 1) ELSE untagged

\* the parameter tokens of a line: it is split on spaces into at most 15
\* tokens, the last one holding the rest of the line, and the first token is
\* the command
ParamTokensOf(text) == Tail(SplitN(15, CommandAndParams(text), " "))

\* the parameters the tokens stand for: the first token after the first one
\* that starts with ':' begins the trailing parameter
ParamsOfTokens(tokens) ==
    LET colons == {i \in 2..Len(tokens) : StartsWith(tokens[i], ":")}
        first == CHOOSE i \in colons : \A j \in colons : i <= j
    IN IF colons = {} THEN tokens
       ELSE SubSeq(tokens, 1, first - 1)
            \o <<From(Join(SubSeq(tokens, first, Len(tokens)), " "), 1)>>

\* C19: in parse, the first parameter token at parameter index > 0 that starts
\* with ':' begins the trailing parameter: that token and all later tokens,
\* rejoined with single spaces and without the leading ':', are the final
\* parameter, and every earlier token is its own parameter; so
\* "PRIVMSG #chan :hello world" gives the params "#chan", "hello world".
TrailingParameter ==
    (codec_pc = "parsed" /\ IsOk(parsed))
    => /\ parsed.val.params = ParamsOfTokens(ParamTokensOf(line))
       /\ line = "PRIVMSG #chan :hello world"
            => parsed.val.params = <<"#chan", "hello world">>

\* a line with tags, a prefix and a trailing parameter of three tokens, one of
\* them empty, was parsed
TrailingWitness ==
    /\ codec_pc = "parsed"
    /\ line = "@t=v :nick PING x :a  b"
    /\ IsOk(parsed)
    /\ parsed.val.params = <<"x", "a  b">>

\* C20 (as stated): every Message returned by parse has at most 15 params,
\* and no param but the last contains a space or starts with ':'.
OnlyFinalParamTrailing ==
    (codec_pc = "parsed" /\ IsOk(parsed))
    => /\ Len(parsed.val.params) <= 15
       /\ \A i \in 1..(Len(parsed.val.params) - 1) :
             /\ ~Contains(parsed.val.params[i], " ")
             /\ ~StartsWith(parsed.val.params[i], ":")

\* a line of acceptable size whose tag section and prefix, if it has them,
\* end with a space
WellFramed(text) ==
    LET body == TrimEndMatches(text, "\r\n")
        untagged == IF StartsWith(body, "@")
                    THEN From(body, Unwrap(Find(body, " ")) + 1) ELSE body
    IN /\ Len(text) <= MAX_MESSAGE_LENGTH + MAX_TAG_LENGTH
       /\ StartsWith(body, "@") => Contains(body, " ")
       /\ StartsWith(untagged, ":") => Contains(untagged, " ")

\* the command of a line, uppercased
CommandOf(text) == ToUppercase(Head(SplitN(15, CommandAndParams(text), " ")))

\* 1 to 32 ASCII letters or exactly 3 digits, and no foreign-protocol verb
AcceptableCommand(c) ==
    /\ Len(c) \in 1..32
    /\ \/ \A i \in 1..Len(c) : Contains(Upper \o Lower, Char(c, i))
       \/ Len(c) = 3 /\ \A i \in 1..3 : Contains(Digits, Char(c, i))
    /\ c \notin INVALID_COMMANDS

\* C21: parse accepts a line only if its command, uppercased, is 1 to 32 ASCII
\* letters or exactly 3 digits and is not a blacklisted foreign-protocol verb;
\* a line with any other command yields SecurityViolation.
CommandAccepted ==
    codec_pc = "parsed"
    => /\ IsOk(parsed)
            => /\ WellFramed(line)
               /\ AcceptableCommand(CommandOf(line))
               /\ parsed.val.command = CommandOf(line)
       /\ (WellFramed(line) /\ ~AcceptableCommand(CommandOf(line)))
            => (parsed.kind = "Err" /\ parsed.err = "SecurityViolation")

\* a lowercase foreign-protocol verb behind tags and a prefix was refused, and
\* so was a number of four digits
CommandWitness ==
    /\ codec_pc = "parsed"
    /\ line \in {"@t=v :nick delete", "0012"}
    /\ parsed.kind = "Err" /\ parsed.err = "SecurityViolation"

\* the tag section of a line, without its '@' and the space that ends it
TagSectionOf(text) ==
    IF StartsWith(text, "@") THEN SubSeq(text, 2, Unwrap(Find(text, " "))) ELSE ""

\* the message part of a line: everything except the tag section
MessagePartOf(text) ==
    IF StartsWith(text, "@") THEN From(text, Unwrap(Find(text, " ")) + 1) ELSE text

\* C22 (as stated): every line that parse accepts has a message part of at
\* most 512 bytes and a tag section of at most 8191 bytes.
WireLimits ==
    (codec_pc = "parsed" /\ IsOk(parsed))
    => /\ Len(MessagePartOf(line)) <= MAX_MESSAGE_LENGTH
       /\ Len(TagSectionOf(line)) <= MAX_TAG_LENGTH

\* the tags of a tag section: its non-empty pieces between semicolons
TagPieces(section) == SelectSeq(Split(section, ";"), LAMBDA t : t # "")

\* the key of a tag: the text before its first '='
TagKeyOf(t) == IF Contains(t, "=") THEN Upto(t, Unwrap(Find(t, "="))) ELSE t

\* the length of the value of a tag, unescaped; 0 when there is none
TagValueLenOf(t) ==
    IF Contains(t, "=") THEN Len(unescape_tag_value(From(t, Unwrap(Find(t, "=")) + 1)))
    ELSE 0

\* the length of the value of each tag key of a well-framed line, a later tag
\* replacing an earlier one of the same key
TagLengthsOf(text) ==
    LET pieces == TagPieces(TagSectionOf(TrimEndMatches(text, "\r\n")))
        last(k) == CHOOSE i \in 1..Len(pieces) :
                       /\ TagKeyOf(pieces[i]) = k
                       /\ \A j \in (i + 1)..Len(pieces) : TagKeyOf(pieces[j]) # k
    IN [k \in {TagKeyOf(pieces[i]) : i \in 1..Len(pieces)}
            |-> TagValueLenOf(pieces[last(k)])]

\* the prefix of a well-framed line, if it has one
PrefixOf(text) ==
    LET untagged == MessagePartOf(TrimEndMatches(text, "\r\n"))
    IN IF StartsWith(untagged, ":")
       THEN Some(SubSeq(untagged, 2, Unwrap(Find(untagged, " ")))) ELSE None

\* the security limits on a command, its params, a prefix and the lengths of
\* the tag values by tag key
SecurityLimits(command, params, prefix, tag_lengths) ==
    /\ \A i \in 1..Len(params) :
          /\ \A j \in 1..Len(params[i]) :
                /\ IsAsciiChar(Char(params[i], j))
                /\ Char(params[i], j) \notin {NUL, "\r", "\n"}
          /\ Len(params[i]) <= (IF command = "CAP" THEN 4096 ELSE 512)
    /\ IsSome(prefix)
         => /\ Len(Unwrap(prefix)) <= 255
            /\ \A j \in 1..Len(Unwrap(prefix)) : Char(Unwrap(prefix), j) \notin {NUL, " "}
    /\ \A k \in DOMAIN tag_lengths :
          /\ Len(k) \in 1..64
          /\ \A j \in 1..Len(k) :
                Contains(Upper \o Lower \o Digits \o "-/._+", Char(k, j))
    /\ SumOver(DOMAIN tag_lengths,
               [k \in DOMAIN tag_lengths |-> Len(k) + tag_lengths[k] + 2]) <= 8191

\* C23: every Message returned by parse satisfies all security limits: each
\* param is ASCII without NUL, CR, LF and at most 512 bytes (4096 when the
\* command is CAP), the prefix is at most 255 bytes without NUL and space,
\* every tag key is 1 to 64 characters of [A-Za-z0-9-/._+], and the sum over
\* the tags of len(key)+len(value)+2 is at most 8191; a line violating any of
\* these yields SecurityViolation, never a Message.
SecurityLimitsKept ==
    codec_pc = "parsed"
    => /\ IsOk(parsed)
            => SecurityLimits(parsed.val.command, parsed.val.params, parsed.val.prefix,
                   [k \in DOMAIN parsed.val.tags |->
                       IF IsSome(parsed.val.tags[k])
                       THEN Len(Unwrap(parsed.val.tags[k])) ELSE 0])
       /\ (/\ WellFramed(line)
           /\ ~SecurityLimits(CommandOf(line), ParamsOfTokens(ParamTokensOf(line)),
                              PrefixOf(line), TagLengthsOf(line)))
            => (parsed.kind = "Err" /\ parsed.err = "SecurityViolation")

\* a line whose tag section is within 8191 bytes but whose tags sum up to more
\* was refused
SecurityLimitsWitness ==
    /\ codec_pc = "parsed"
    /\ line = "@a=" \o Repeat("v", 8165) \o ManyTags \o " PING"
    /\ Len(TagSectionOf(line)) <= MAX_TAG_LENGTH
    /\ parsed.kind = "Err" /\ parsed.err = "SecurityViolation"

\* the values of the attributes of a challenge text that start with key
AttributeValues(text, key) ==
    LET attrs == SelectSeq(Split(text, ","), LAMBDA part : StartsWith(part, key))
    IN [i \in 1..Len(attrs) |-> From(attrs[i], Len(key))]

\* a number as u32::from_str reads it: digits after an optional '+'
IsNumber(value) ==
    LET digits == IF StartsWith(value, "+") THEN Tail(value) ELSE value
    IN digits # "" /\ \A i \in 1..Len(digits) : Contains(Digits, Char(digits, i))

\* a challenge that a SaslAuth with this password and client nonce may answer
ScramAnswerable(challenge, pass, nonce) ==
    LET text == BASE64_decode(challenge).val
        rs == AttributeValues(text, "r=")
        ss == AttributeValues(text, "s=")
        is == AttributeValues(text, "i=")
    IN /\ IsSome(pass) /\ IsSome(nonce)
       /\ IsOk(BASE64_decode(challenge))
       /\ rs # <<>> /\ ss # <<>> /\ is # <<>>
       /\ \A i \in 1..Len(rs) : StartsWith(rs[i], Unwrap(nonce))
       /\ \A i \in 1..Len(ss) : IsOk(BASE64_decode(ss[i]))
       /\ \A i \in 1..Len(is) : IsNumber(is[i])

\* the response to a challenge: c=biws, the server nonce as received and a
\* base64 proof, all in base64
IsScramResponse(response, challenge) ==
    LET rs == AttributeValues(BASE64_decode(challenge).val, "r=")
        head == "c=biws,r=" \o rs[Len(rs)] \o ",p="
        text == BASE64_decode(response)
    IN /\ IsOk(text)
       /\ StartsWith(text.val, head)
       /\ IsOk(BASE64_decode(From(text.val, Len(head))))

\* the step ScramChallengeAnswered asks of every transition
ScramChallengeStep ==
    (call'.op = "process_challenge" /\ mechanism = "ScramSha256")
    => /\ IsOk(result')
            => /\ ScramAnswerable(call'.args[1], password, client_nonce)
               /\ IsScramResponse(result'.val, call'.args[1])
       /\ ~ScramAnswerable(call'.args[1], password, client_nonce)
            => (result'.kind = "Err" /\ result'.err = "Sasl")

\* C24: for ScramSha256, process_challenge produces a response only if the
\* decoded challenge has r=, s= and i= attributes, the r= value starts with the
\* client nonce stored by the most recent generate_initial_response, s= is
\* valid base64 and i= is a number; otherwise, also before
\* generate_initial_response or without a password, it returns SaslError.  On
\* success the response decodes to c=biws,r=<server nonce as received>,p=<proof>.
ScramChallengeAnswered == [][ScramChallengeStep]_vars

\* a challenge with two r= attributes was answered with the later server nonce
ScramWitness ==
    /\ mechanism = "ScramSha256"
    /\ call.op = "process_challenge"
    /\ call.args[1] = BASE64_encode("r=nAsrv,r=nAsrv2,s=b64(salt),i=1")
    /\ IsOk(result)
    /\ server_nonce = Some("nAsrv2")
    /\ IsScramResponse(result.val, call.args[1])

\* the step OneShotMechanismsRefuseChallenges asks of every transition
OneShotStep ==
    (call'.op = "process_challenge" /\ mechanism \in {"Plain", "External"})
    => /\ result'.kind = "Err" /\ result'.err = "Sasl"
       /\ Auth' = Auth

\* C25: for the Plain and External mechanisms, process_challenge fails with
\* SaslError for every challenge string, valid base64 or not, in every state,
\* and leaves the SaslAuth unchanged.
OneShotMechanismsRefuseChallenges == [][OneShotStep]_vars

\* External refused a challenge of valid base64 after the exchange had
\* succeeded
OneShotWitness ==
    /\ mechanism = "External"
    /\ state = "Success"
    /\ call.op = "process_challenge"
    /\ IsOk(BASE64_decode(call.args[1]))
    /\ result.kind = "Err" /\ result.err = "Sasl"

\* the step StateEdges asks of every transition
StateEdgeStep ==
    state' # state
    => <<state, state'>> \in {<<"Initial", "Authenticating">>,
                              <<"Authenticating", "Success">>,
                              <<"Authenticating", "Failed">>}

\* C26 (as stated): the SASL state changes only along the edges Initial ->
\* Authenticating, Authenticating -> Success and Authenticating -> Failed.
StateEdges == [][StateEdgeStep]_vars

\* the step StateEdgesOfMarks asks of every transition
StateEdgeOfMarksStep ==
    state' # state
    => /\ state' # "Initial"
       /\ state' = "Authenticating" => mechanism = "ScramSha256"
       /\ <<state, state'>> \in
             {<<"Initial", "Authenticating">>, <<"Success", "Authenticating">>,
              <<"Failed", "Authenticating">>,
              <<"Initial", "Success">>, <<"Authenticating", "Success">>,
              <<"Failed", "Success">>,
              <<"Initial", "Failed">>, <<"Authenticating", "Failed">>,
              <<"Success", "Failed">>}

\* C26 (amended): the state never returns to Initial and only ScramSha256
\* enters Authenticating; Success and Failed are entered from every other
\* state, Initial included, and Authenticating from Initial, Success and
\* Failed.
StateEdgesOfMarks == [][StateEdgeOfMarksStep]_vars

\* a Plain exchange, which never is Authenticating, has succeeded
StateEdgesWitness ==
    /\ mechanism = "Plain"
    /\ state = "Success"
    /\ call.op = "mark_success"

\* the step CompletionFollowsMarks asks of every transition
CompletionStep ==
    /\ call'.op = "mark_success" => (is_complete(Auth') /\ is_success(Auth'))
    /\ call'.op = "mark_failed" => (is_complete(Auth') /\ ~is_success(Auth'))
    /\ (/\ call'.op \notin {"mark_success", "mark_failed"}
        /\ ~(call'.op = "generate_initial_response" /\ mechanism = "ScramSha256"))
         => /\ is_complete(Auth') = is_complete(Auth)
            /\ is_success(Auth') = is_success(Auth)

\* C27: is_complete and is_success follow the last mark call: a fresh SaslAuth
\* is neither complete nor successful, after mark_success it is complete and
\* successful, after a subsequent mark_failed it is complete and not
\* successful, and is_success implies is_complete in every reachable state.
\* No other call changes the two answers, but for generate_initial_response
\* of ScramSha256.
CompletionFollowsMarks ==
    /\ [](call.op = "new" => (~is_complete(Auth) /\ ~is_success(Auth)))
    /\ [](is_success(Auth) => is_complete(Auth))
    /\ [][CompletionStep]_vars

\* mark_failed was the last call on a Plain SaslAuth, which is complete and
\* not successful
CompletionWitness ==
    /\ call.op = "mark_failed"
    /\ is_complete(Auth) /\ ~is_success(Auth)
    /\ mechanism = "Plain"

\* the step NegotiationCompleteOnlySet asks of every transition
NegotiationCompleteStep ==
    /\ negotiation_complete' # negotiation_complete
         => (call'.op = "set_negotiation_complete" /\ negotiation_complete')
    /\ call'.op = "set_negotiation_complete" => negotiation_complete'
    /\ (negotiation_complete /\ version >= 302 /\ call'.op = "handle_cap_del")
         => /\ Without(available_caps', available_caps, NameSet(call'.args[1]))
            /\ Without(enabled_caps', enabled_caps, NameSet(call'.args[1]))
    /\ (/\ negotiation_complete /\ version >= 302 /\ call'.op = "handle_cap_new"
        /\ \A n \in ListedNames(call'.args[1]) : is_valid_capability_name(n))
         => /\ DOMAIN available_caps'
                 = DOMAIN available_caps \cup ListedNames(call'.args[1])
            /\ IsOk(result')

\* C28: negotiation_complete is false for a new handler, becomes true only
\* through set_negotiation_complete, is never reset or set by handle_cap_ls,
\* ack, nak, new, del or the STS operations, and after it is true NEW and DEL
\* notifications still change available_caps and enabled_caps.
NegotiationCompleteOnlySet ==
    /\ [](call.op = "new" => ~negotiation_complete)
    /\ [][NegotiationCompleteStep]_vars

\* after the end of negotiation, with an STS policy stored, a DEL has removed
\* sasl from the available capabilities and left batch enabled
NegotiationCompleteWitness ==
    /\ negotiation_complete
    /\ version = 302
    /\ sts_policies # EmptyMap
    /\ call = Call("handle_cap_del", <<(<<"sasl">>)>>)
    /\ "sasl" \notin DOMAIN available_caps
    /\ "batch" \in DOMAIN enabled_caps

\* the text the params are written as: each after a single space, the last
\* one after " :" when it contains a space or starts with ':'
ParamText(params) ==
    Join([i \in 1..Len(params) |->
             (IF /\ i = Len(params)
                 /\ (Contains(params[i], " ") \/ StartsWith(params[i], ":"))
              THEN " :" ELSE " ") \o params[i]], "")

\* C29: serialize writes each param after a single space, and the last param
\* as " :" + param exactly when it contains a space or starts with ':' (never
\* a non-last param), and always ends the line with CRLF; PRIVMSG with the
\* params "#channel", "Hello world" gives "PRIVMSG #channel :Hello world\r\n".
SerializedParamText ==
    codec_pc = "serialized"
    => /\ EndsWith(line, message.command \o ParamText(message.params) \o "\r\n")
       /\ (DOMAIN message.tags = {} /\ ~IsSome(message.prefix))
            => line = message.command \o ParamText(message.params) \o "\r\n"
       /\ message.command = "PRIVMSG" => line = "PRIVMSG #channel :Hello world\r\n"

\* a Message whose first param starts with ':' and whose last param holds a
\* space was serialized: only the last param got a colon
SerializedWitness ==
    /\ codec_pc = "serialized"
    /\ message.params = <<":a", "a b">>
    /\ line = "PING :a :a b\r\n"

\* a valid capability name: 1 to 64 characters of [A-Za-z0-9-/._+], no
\* leading '-', and at most one '/', before which a name with a dot ends in
\* one of the known domains
ValidCapabilityName(name) ==
    LET vendor == Upto(name, Unwrap(Find(name, "/")))
    IN /\ Len(name) \in 1..64
       /\ Char(name, 1) # "-"
       /\ \A i \in 1..Len(name) :
             Contains(Upper \o Lower \o Digits \o "-/._+", Char(name, i))
       /\ Contains(name, "/")
            => /\ ~Contains(From(name, Len(vendor) + 1), "/")
               /\ Contains(vendor, ".")
                    => \E tld \in {".com", ".org", ".net", ".chat", ".in"} :
                          EndsWith(vendor, tld)

\* the capability list of an LS or NEW line: its last parameter
CapListOf(c) ==
    IF c.op = "handle_cap_new" THEN c.args[1] ELSE c.args[1][Len(c.args[1])]

\* the step ValidNamesOnly asks of every transition
ValidNamesStep ==
    /\ \A n \in DOMAIN available_caps' \cup DOMAIN enabled_caps' : ValidCapabilityName(n)
    /\ \A n \in DOMAIN available_caps' :
          (n \notin DOMAIN available_caps \/ available_caps'[n] # available_caps[n])
             => available_caps'[n].enabled = FALSE
    /\ (/\ \/ call'.op = "handle_cap_new"
           \/ call'.op = "handle_cap_ls" /\ Len(call'.args[1]) >= 2
        /\ \E n \in ListedNames(CapListOf(call')) : ~ValidCapabilityName(n))
         => /\ result'.kind = "Err" /\ result'.err = "SecurityViolation"
            /\ \A n \in ListedNames(CapListOf(call')) :
                  ~ValidCapabilityName(n) => n \notin DOMAIN available_caps'

\* C30 (as stated): every name in available_caps or enabled_caps is a valid
\* capability name; an LS or NEW line containing an invalid name returns
\* SecurityViolation and that name is never inserted, and every entry
\* inserted into available_caps has enabled = false.
ValidNamesOnly == [][ValidNamesStep]_vars

-----------------------------------------------------------------------------
(* The sasl mechanisms of the enabled capability *)

\* the positions of the commas of a value
CommasOf(value) == {i \in 1..Len(value) : Char(value, i) = ","}

\* the k-th piece of a value between its commas, counted from 1
PieceOf(value, k) ==
    LET before == {i \in CommasOf(value) :
                      Cardinality({j \in CommasOf(value) : j <= i}) = k - 1}
        after  == {i \in CommasOf(value) :
                      Cardinality({j \in CommasOf(value) : j <= i}) = k}
        first == IF before = {} THEN 1 ELSE (CHOOSE i \in before : TRUE) + 1
        last  == IF after = {} THEN Len(value) ELSE (CHOOSE i \in after : TRUE) - 1
    IN SubSeq(value, first, last)

\* a piece without the whitespace around it
Stripped(piece) ==
    LET solid == {i \in 1..Len(piece) : Char(piece, i) \notin Whitespace}
    IN IF solid = {} THEN ""
       ELSE SubSeq(piece, CHOOSE i \in solid : \A j \in solid : i <= j,
                          CHOOSE i \in solid : \A j \in solid : j <= i)

\* what get_sasl_mechanisms is to return for the enabled capabilities
MechanismsOf(enabled) ==
    IF "sasl" \notin DOMAIN enabled \/ ~IsSome(enabled["sasl"].value) THEN <<>>
    ELSE LET value == Unwrap(enabled["sasl"].value)
         IN [k \in 1..(Cardinality(CommasOf(value)) + 1) |->
                Stripped(PieceOf(value, k))]

\* C31: get_sasl_mechanisms returns the empty list when "sasl" is not in
\* enabled_caps or is enabled without a value, and otherwise the pieces of
\* the enabled value between its commas, each trimmed, in order.
MechanismsOfEnabledSasl ==
    call.op = "get_sasl_mechanisms" => result = Ok(MechanismsOf(enabled_caps))

\* get_sasl_mechanisms has returned three mechanisms, one of them empty, from
\* an enabled value with two commas
MechanismsWitness ==
    /\ call.op = "get_sasl_mechanisms"
    /\ "sasl" \in DOMAIN enabled_caps
    /\ enabled_caps["sasl"].value = Some("SCRAM-SHA-256,,PLAIN")
    /\ result = Ok(<<"SCRAM-SHA-256", "", "PLAIN">>)

-----------------------------------------------------------------------------
(* The initial response of the one-shot mechanisms *)

\* the bytes NUL, username, NUL, password
IsPlainCredentials(bytes, user, pass) ==
    /\ Len(bytes) = Len(user) + Len(pass) + 2
    /\ Char(bytes, 1) = NUL
    /\ SubSeq(bytes, 2, Len(user) + 1) = user
    /\ Char(bytes, Len(user) + 2) = NUL
    /\ SubSeq(bytes, Len(user) + 3, Len(bytes)) = pass

\* the step InitialResponseOfOneShot asks of every transition
InitialResponseStep ==
    call'.op = "generate_initial_response"
    => /\ (mechanism = "Plain" /\ ~IsSome(password))
            => result'.kind = "Err" /\ result'.err = "Sasl"
       /\ (mechanism = "Plain" /\ IsSome(password))
            => /\ result'.kind = "Ok"
               /\ IsOk(BASE64_decode(result'.val))
               /\ IsPlainCredentials(BASE64_decode(result'.val).val, username,
                                     Unwrap(password))
       /\ mechanism = "External"
            => /\ result'.kind = "Ok"
               /\ BASE64_decode(result'.val) = Ok("")

\* C32: generate_initial_response for Plain returns SaslError when no
\* password was supplied and otherwise the base64 encoding of NUL, username,
\* NUL, password; for External it always returns the base64 encoding of the
\* empty string, with or without a password.
InitialResponseOfOneShot == [][InitialResponseStep]_vars

\* Plain has answered with the credentials of a user and a password, after
\* the exchange had been marked as failed
InitialResponseWitness ==
    /\ call.op = "generate_initial_response"
    /\ mechanism = "Plain" /\ username = "a b" /\ password = Some("pw")
    /\ state = "Failed"
    /\ result = Ok(BASE64_encode(NUL \o "a b" \o NUL \o "pw"))

-----------------------------------------------------------------------------
(* The hierarchy of the roles *)

\* C33: whenever a role may manage another its level is at least the
\* other's; Founder may manage every role, no role may manage a role of a
\* strictly higher level, and the roles below Operator may manage no role.
RoleHierarchy ==
    call.op \in {"can_manage_role", "can_manage_user_role"}
    => LET a == call.args[1]
           b == call.args[2]
       IN /\ result.val => hierarchy_level(a) >= hierarchy_level(b)
          /\ a = "Founder" => result.val
          /\ hierarchy_level(b) > hierarchy_level(a) => ~result.val
          /\ a \in {"HalfOp", "Voice", "Member", "Restricted", "Muted"} => ~result.val

\* Operator was asked whether it may manage Operator, a role of its own
\* level, and may
RoleWitness ==
    /\ call = Call("can_manage_role", <<"Operator", "Operator">>)
    /\ result = Ok(TRUE)

-----------------------------------------------------------------------------
(* The rejected capabilities that end the negotiation *)

\* the step NakFailsOnSaslAlone asks of every transition
NakSaslStep ==
    call'.op = "handle_cap_nak" =>
       LET caps == call'.args[1]
       IN /\ result' \in {Ok(<<>>), Err("SecurityViolation")}
          /\ result' = Err("SecurityViolation")
               <=> \E i \in 1..Len(caps) : caps[i] = "sasl"

\* C34: handle_cap_nak returns SecurityViolation if and only if some element
\* of caps is exactly "sasl"; a NAK of "sts" returns Ok, and so does a single
\* element such as "sasl batch", which is not split on whitespace.
NakFailsOnSaslAlone == [][NakSaslStep]_vars

\* the one element "sasl batch" was rejected and the call returned Ok, sasl
\* being advertised
NakSaslWitness ==
    /\ call = Call("handle_cap_nak", <<(<<"sasl batch">>)>>)
    /\ result = Ok(<<>>)
    /\ "sasl" \in DOMAIN available_caps

-----------------------------------------------------------------------------
(* The list of requested capabilities *)

\* the step RequestedCapsStayEmpty asks of every transition
NakChangesNothingStep == call'.op = "handle_cap_nak" => Handler' = Handler

\* C35: requested_caps is empty in every state reachable through the public
\* operations of the handler, get_capabilities_to_request included, so the
\* removal done by handle_cap_nak never changes the state.
RequestedCapsStayEmpty == [](requested_caps = <<>>) /\ [][NakChangesNothingStep]_vars

\* "batch" was rejected after it had been advertised and acknowledged and
\* after the handler had named it as a capability to request
RequestedCapsWitness ==
    /\ call = Call("handle_cap_nak", <<(<<"batch">>)>>)
    /\ result = Ok(<<>>)
    /\ "batch" \in DOMAIN enabled_caps
    /\ SeqContains(get_capabilities_to_request(Handler), "batch")
    /\ requested_caps = <<>>

-----------------------------------------------------------------------------
(* A capability list with an invalid name *)

\* the list that an LS or NEW call hands to parse_capabilities
ParsedListOf(c) ==
    IF c.op = "handle_cap_new" THEN c.args[1]
    ELSE IF Len(c.args[1]) > 2 /\ c.args[1][2] = "*" THEN c.args[1][3]
    ELSE c.args[1][2]

\* the value a token advertises: what follows its first '=', if it has one
ValueOfToken(token) ==
    IF Contains(token, "=")
    THEN Some(SubSeq(token, Len(Split(token, "=")[1]) + 2, Len(token)))
    ELSE None

\* the position of the first invalid name of a list that has one
FirstInvalid(names) ==
    CHOOSE i \in 1..Len(names) :
        ~ValidCapabilityName(names[i])
        /\ \A j \in 1..(i - 1) : ValidCapabilityName(names[j])

\* available_caps after the tokens before first_bad have been applied in
\* order, and no other
AppliedBefore(tokens, names, first_bad) ==
    LET before == 1..(first_bad - 1)
        applied == {names[i] : i \in before}
        last_of(n) == CHOOSE i \in before :
                         names[i] = n /\ \A j \in before : names[j] = n => j <= i
    IN /\ DOMAIN available_caps' = DOMAIN available_caps \cup applied
       /\ \A n \in applied :
             available_caps'[n] =
                CapabilitySpec(n, ValueOfToken(tokens[last_of(n)]), FALSE)
       /\ \A n \in DOMAIN available_caps \ applied :
             available_caps'[n] = available_caps[n]

\* the step ListAppliedTokenByToken asks of every transition
PartialListStep ==
    (/\ \/ call'.op = "handle_cap_new"
        \/ call'.op = "handle_cap_ls" /\ Len(call'.args[1]) >= 2
     /\ result' = Err("SecurityViolation"))
    => /\ \E n \in ListedNames(ParsedListOf(call')) : ~ValidCapabilityName(n)
       /\ AppliedBefore(SplitWhitespace(ParsedListOf(call')),
                        ListedNameSeq(ParsedListOf(call')),
                        FirstInvalid(ListedNameSeq(ParsedListOf(call'))))

\* C36: a capability list is applied token by token: when handle_cap_ls or
\* handle_cap_new returns SecurityViolation for an invalid name, the
\* capabilities listed before that name have been inserted or overwritten in
\* available_caps and those listed after it have not.
ListAppliedTokenByToken == [][PartialListStep]_vars

\* a NEW line failed on its second name: batch, acknowledged earlier without
\* a value, has been overwritten with the value listed before the invalid
\* name, and sasl keeps the value it had, not the one listed after it
PartialListWitness ==
    /\ call = Call("handle_cap_new", <<"batch=x -bad sasl=EXTERNAL">>)
    /\ result = Err("SecurityViolation")
    /\ "batch" \in DOMAIN enabled_caps /\ enabled_caps["batch"].value = None
    /\ available_caps["batch"].value = Some("x")
    /\ "sasl" \in DOMAIN available_caps
    /\ available_caps["sasl"].value = Some("PLAIN,EXTERNAL")

-----------------------------------------------------------------------------
(* What a challenge leaves behind *)

\* the step RejectedChallengeChangesNothing asks of every transition
RejectedChallengeStep ==
    call'.op = "process_challenge"
    => /\ state' = state
       /\ result'.kind = "Err"
            => /\ result'.err = "Sasl"
               /\ Auth' = Auth

\* C37: a process_challenge call that returns SaslError (bad base64 or
\* UTF-8, a missing password or client nonce, a missing or malformed r=, s=
\* or i= attribute, a server nonce that does not start with the client
\* nonce) leaves every field of the SaslAuth unchanged, and no
\* process_challenge call, successful or not, changes the state.
RejectedChallengeChangesNothing == [][RejectedChallengeStep]_vars

\* a challenge with a foreign server nonce was rejected after an earlier
\* challenge had been answered: the attributes of the earlier one are kept
RejectedChallengeWitness ==
    /\ call = Call("process_challenge",
                   <<BASE64_encode("r=other,s=b64(salt),i=4096")>>)
    /\ result = Err("Sasl")
    /\ mechanism = "ScramSha256" /\ state = "Authenticating"
    /\ client_nonce = Some("nA")
    /\ server_nonce = Some("nAsrv") /\ salt = Some("salt") /\ iterations = Some("4096")

-----------------------------------------------------------------------------
(* An STS value that does not parse *)

\* values without a duration, with a duration that is no u64, and with a
\* port that is no u16
UnparsableStsValues ==
    {"port=7000", "duration=x", "duration=18446744073709551616",
     "duration=1,port=65536"}

\* the step RejectedStsPolicyKeepsCache asks of every transition that is a
\* call (the clock stands during a call)
RejectedStsPolicyStep ==
    (call'.op = "handle_sts_policy" /\ now' = now)
    => /\ call'.args[2] \in UnparsableStsValues => result' = Err("Parse")
       /\ result'.kind = "Err"
            => /\ sts_policies' = sts_policies
               /\ \A h \in Hostnames :
                     should_upgrade_to_tls(Handler', h, now')
                        = should_upgrade_to_tls(Handler, h, now)

\* C38: a handle_sts_policy call that returns an error (missing duration,
\* unparsable duration, unparsable or out-of-range port) leaves sts_policies
\* unchanged, so a previously stored unexpired policy for that hostname
\* still makes should_upgrade_to_tls return its port.
RejectedStsPolicyKeepsCache == [][RejectedStsPolicyStep]_vars

\* a value with an out-of-range port was refused for a hostname whose stored
\* policy, with port 7000, is still in force
RejectedStsPolicyWitness ==
    /\ call = Call("handle_sts_policy", <<"a.example", "duration=1,port=65536">>)
    /\ result = Err("Parse")
    /\ "a.example" \in DOMAIN sts_policies
    /\ sts_policies["a.example"].port = Some(7000)
    /\ should_upgrade_to_tls(Handler, "a.example", now) = Some(7000)

-----------------------------------------------------------------------------
(* The queries *)

QueryOperations ==
    {"get_essential_capabilities", "get_capabilities_to_request",
     "is_capability_enabled", "get_sasl_mechanisms", "is_negotiation_complete",
     "should_upgrade_to_tls"}

\* the step QueriesChangeNothing asks of every transition
QueryStep == call'.op \in QueryOperations => Handler' = Handler

\* C39: get_essential_capabilities, get_capabilities_to_request,
\* is_capability_enabled, get_sasl_mechanisms, is_negotiation_complete and
\* should_upgrade_to_tls leave the whole handler unchanged; in particular
\* should_upgrade_to_tls never removes an expired policy from sts_policies.
QueriesChangeNothing == [][QueryStep]_vars

\* should_upgrade_to_tls has answered None for a hostname whose policy has
\* run out, and the policy is still stored
QueriesWitness ==
    /\ call = Call("should_upgrade_to_tls", <<"a.example">>)
    /\ result = Ok(None)
    /\ "a.example" \in DOMAIN sts_policies
    /\ BigLe(sts_policies["a.example"].expires_at, BigOf(now))
    /\ DOMAIN enabled_caps # {}

-----------------------------------------------------------------------------
(* The value of an enabled capability *)

\* the names an ACK or DEL call lists
NamesOfCall(c) ==
    IF c.op = "handle_cap_ack" THEN AcknowledgedNames(c.args[1])
    ELSE IF c.op = "handle_cap_del" THEN NameSet(c.args[1])
    ELSE {}

\* the step EnabledValueKept asks of every transition
EnabledValueStep ==
    /\ \A n \in DOMAIN enabled_caps :
          n \notin NamesOfCall(call')
             => n \in DOMAIN enabled_caps' /\ enabled_caps'[n] = enabled_caps[n]
    /\ call'.op \in {"handle_cap_ls", "handle_cap_new"}
          => /\ enabled_caps' = enabled_caps
             /\ get_sasl_mechanisms(Handler') = get_sasl_mechanisms(Handler)
    /\ call'.op = "handle_cap_ack"
          => \A n \in AcknowledgedNames(call'.args[1]) \cap DOMAIN available_caps :
                /\ n \in DOMAIN enabled_caps'
                /\ enabled_caps'[n].value = available_caps[n].value

\* C40: an enabled capability keeps the value it had in available_caps when
\* it was acknowledged: a later LS or NEW line advertising the same name with
\* a different value changes available_caps only, so get_sasl_mechanisms
\* keeps returning the mechanisms from ACK time until the name is
\* acknowledged again or deleted.
EnabledValueKept == [][EnabledValueStep]_vars

\* sasl was acknowledged with two mechanisms, a later NEW line advertised
\* another one, and get_sasl_mechanisms still returns the two
EnabledValueWitness ==
    /\ call.op = "get_sasl_mechanisms"
    /\ result = Ok(<<"PLAIN", "EXTERNAL">>)
    /\ "sasl" \in DOMAIN available_caps
    /\ available_caps["sasl"].value = Some("SCRAM-SHA-256,,PLAIN")

====
